---- MODULE Spec2Model ----
(***************************************************************************)
(* kustforge: resource-reference resolution (session manager, handler      *)
(* registry, caching layer, {{ ... }} substitution) and the backup /       *)
(* apply / rollback of generated manifests.                                *)
(*                                                                         *)
(* Python strings are sequences of one-character strings, so that the      *)
(* f-string keys, the prefix tests and the regular expressions of the      *)
(* source are computed and not assumed.  Python's None is the value None   *)
(* below, which is no string.                                              *)
(***************************************************************************)
EXTENDS Integers, Sequences, FiniteSets, TLC

VARIABLES
    sessions,     \* AWSSessionManager.sessions: session key -> session handle
    nextId,       \* identity of the next boto3.Session object constructed
    cache,        \* CachedResourceResolver.cache: cache key -> resolved string
    createRuns,   \* history: session key -> runs of _create_session
    assumeRuns,   \* history: session key -> sts.assume_role exchanges
    hist,         \* history: lookup arguments -> first non-None value returned
    calls,        \* number of API calls made so far
    last,         \* record of the last completed API call
    pv,           \* the process_variables call in progress
    threads,      \* the lookups in progress on the caching layer, one per thread
    fs,           \* the files under the target directory: path -> content
    os,           \* the operating system: os.linesep, and the paths that fail
    clock,        \* the time of day, in seconds
    rollback,     \* RollbackManager: backup_dir and current_backup
    run,          \* the run of main in progress
    note          \* record of the last call on the rollback manager

rvars ==
    <<sessions, nextId, cache, createRuns, assumeRuns, hist, calls, last, pv,
      threads>>
fvars == <<fs, os, clock, rollback, run, note>>
vars == <<rvars, fvars>>

----------------------------------------------------------------------------
(* Bounds of the model *)

MaxCalls == 2
MaxRuns == 2
MaxMains == 1
MaxFaults == 1
MaxClock == 1
MaxLookups == 3

----------------------------------------------------------------------------
(* Python values *)

None == <<"<None>">>
Truthy(s) == s # None /\ s # <<>>
Or(a, b) == IF Truthy(a) THEN a ELSE b
Str_raw(x) == x
Str(x) == IF x = None THEN <<"N", "o", "n", "e">> ELSE x

EmptyMap == [k \in {} |-> <<>>]
Put(f, k, v) == [x \in DOMAIN f \cup {k} |-> IF x = k THEN v ELSE f[x]]
Get(f, k, d) == IF k \in DOMAIN f THEN f[k] ELSE d
Count(f, k) == IF k \in DOMAIN f THEN f[k] ELSE 0

Digits == {"0", "1", "2", "3", "4", "5", "6", "7", "8", "9"}
IsDigit(s) == s # <<>> /\ \A i \in 1..Len(s) : s[i] \in Digits
StartsWith(s, p) == Len(s) >= Len(p) /\ SubSeq(s, 1, Len(p)) = p
EndsWith(s, p) == Len(s) >= Len(p) /\ SubSeq(s, Len(s) - Len(p) + 1, Len(s)) = p
Contains(s, p) == \E i \in 0..(Len(s) - Len(p)) : SubSeq(s, i + 1, i + Len(p)) = p

S_default == <<"d", "e", "f", "a", "u", "l", "t">>
S_aws == <<"a", "w", "s", ":">>
S_arn == <<"a", "r", "n", ":", "a", "w", "s", ":", "i", "a", "m", ":", ":">>
S_role == <<":", "r", "o", "l", "e", "/">>
S_rds == <<"r", "d", "s">>
S_elasticache == <<"e", "l", "a", "s", "t", "i", "c", "a", "c", "h", "e">>
S_alb == <<"a", "l", "b">>
S_ecr == <<"e", "c", "r">>
S_secret == <<"s", "e", "c", "r", "e", "t">>
S_waf == <<"w", "a", "f">>
S_acm == <<"a", "c", "m">>
S_name == <<"n", "a", "m", "e">>
S_prod == <<"p", "r", "o", "d">>
S_111 == <<"1", "1", "1">>
S_123 == <<"1", "2", "3">>
S_deploy == <<"d", "e", "p", "l", "o", "y">>
S_ops == <<"o", "p", "s">>
S_ops_arn == <<"a", "r", "n", ":", "a", "w", "s", ":", "i", "a", "m", ":", ":", "9", ":", "r", "o", "l", "e", "/", "o">>
S_dev == <<"d", "e", "v">>
S_devprofile == <<"d", "e", "v", "-", "p">>
S_X == <<"X">>
S_Y == <<"Y">>
S_a == <<"a">>
S_b == <<"b">>

----------------------------------------------------------------------------
(* aws/session.py: AWSSessionManager *)

\* The configuration file loaded once by _load_config.
role_mappings == (S_ops :> S_ops_arn)
account_mappings == (S_prod :> S_111)
profile_mappings == (S_dev :> S_devprofile)

resolve_account_id_identity(account_identifier) == account_identifier
resolve_account_id(account_identifier) ==
    IF IsDigit(account_identifier)
    THEN account_identifier
    ELSE Get(account_mappings, account_identifier, account_identifier)

session_key(account_id, role_name) ==
    Or(account_id, S_default) \o <<":">> \o Or(role_name, S_default)

\* A boto3.Session object: its identity and the arguments it was built from.
Session(id, kind, arg) == [id |-> id, kind |-> kind, arg |-> arg]
NoSession == Session(0, "none", <<>>)

get_role_arn_synth_first(account_id, role_name) ==
    IF StartsWith(role_name, S_arn)
    THEN [tag |-> "return", arn |-> role_name]
    ELSE IF Truthy(account_id)
    THEN [tag |-> "return",
          arn |-> S_arn \o account_id \o S_role \o role_name]
    ELSE IF Truthy(Get(role_mappings, role_name, None))
    THEN [tag |-> "return", arn |-> role_mappings[role_name]]
    ELSE [tag |-> "raise", arn |-> <<>>]
get_role_arn(account_id, role_name) ==
    IF StartsWith(role_name, S_arn)
    THEN [tag |-> "return", arn |-> role_name]
    ELSE LET role_arn == Get(role_mappings, role_name, None)
         IN IF Truthy(role_arn)
            THEN [tag |-> "return", arn |-> role_arn]
            ELSE IF ~Truthy(account_id)
                 THEN [tag |-> "raise", arn |-> <<>>]
                 ELSE [tag |-> "return",
                       arn |-> S_arn \o account_id \o S_role \o role_name]

\* sts is what the STS service does with the exchange: "ok", "ClientError"
\* (converted to ValueError) or "Exception" (any other error, propagated).
\* error is the class of the exception that leaves the function.
assume_role_session_swallow(role_arn, id, sts) ==
    [tag |-> "return", session |-> Session(id, "assumed", role_arn),
     error |-> "none"]
assume_role_session(role_arn, id, sts) ==
    IF sts = "ok"
    THEN [tag |-> "return", session |-> Session(id, "assumed", role_arn),
          error |-> "none"]
    ELSE [tag |-> "raise", session |-> NoSession,
          error |-> IF sts = "ClientError" THEN "ValueError" ELSE sts]

\* arn is the RoleArn handed to sts.assume_role, <<>> when there is no exchange.
create_session_no_profile(account_id, role_name, id, sts) ==
    LET Assumed(arn, s) ==
            [tag |-> s.tag, session |-> s.session, assumes |-> 1, arn |-> arn,
             error |-> s.error]
        WithArn(a) ==
            IF a.tag = "raise"
            THEN [tag |-> "raise", session |-> NoSession, assumes |-> 0,
                  arn |-> <<>>, error |-> "ValueError"]
            ELSE Assumed(a.arn, assume_role_session(a.arn, id, sts))
    IN IF ~Truthy(role_name)
       THEN [tag |-> "return", session |-> Session(id, "default", <<>>),
             assumes |-> 0, arn |-> <<>>, error |-> "none"]
       ELSE WithArn(get_role_arn(account_id, role_name))
create_session(account_id, role_name, id, sts) ==
    LET Assumed(arn, s) ==
            [tag |-> s.tag, session |-> s.session, assumes |-> 1, arn |-> arn,
             error |-> s.error]
        WithArn(a) ==
            IF a.tag = "raise"
            THEN [tag |-> "raise", session |-> NoSession, assumes |-> 0,
                  arn |-> <<>>, error |-> "ValueError"]
            ELSE Assumed(a.arn, assume_role_session(a.arn, id, sts))
    IN IF ~Truthy(role_name)
       THEN [tag |-> "return", session |-> Session(id, "default", <<>>),
             assumes |-> 0, arn |-> <<>>, error |-> "none"]
       ELSE IF role_name \in DOMAIN profile_mappings
       THEN [tag |-> "return",
             session |-> Session(id, "profile", profile_mappings[role_name]),
             assumes |-> 0, arn |-> <<>>, error |-> "none"]
       ELSE WithArn(get_role_arn(account_id, role_name))

StoreSession_dropped(ss, key, session) == ss
StoreSession_single(ss, key, session) == Put(EmptyMap, key, session)
StoreSession(ss, key, session) == Put(ss, key, session)

get_session(ss, id, account_id, role_name, sts) ==
    LET Created(key, c) ==
            IF c.tag = "return"
            THEN [tag |-> "return", session |-> c.session,
                  sessions |-> StoreSession(ss, key, c.session), key |-> key,
                  creates |-> 1, assumes |-> c.assumes, arn |-> c.arn,
                  error |-> "none"]
            ELSE [tag |-> "raise", session |-> NoSession, sessions |-> ss,
                  key |-> key, creates |-> 1, assumes |-> c.assumes,
                  arn |-> c.arn, error |-> c.error]
        Keyed(acct, key) ==
            IF key \in DOMAIN ss
            THEN [tag |-> "return", session |-> ss[key], sessions |-> ss,
                  key |-> key, creates |-> 0, assumes |-> 0, arn |-> <<>>,
                  error |-> "none"]
            ELSE Created(key, create_session(acct, role_name, id, sts))
        Resolved(acct) == Keyed(acct, session_key(acct, role_name))
    IN Resolved(IF Truthy(account_id) THEN resolve_account_id(account_id)
                ELSE account_id)

----------------------------------------------------------------------------
(* aws/resolver.py: AWSResourceResolver *)

resource_handlers == {S_rds, S_elasticache, S_alb, S_ecr, S_secret}

\* `resource_type in self.resource_handlers`
IsUnregistered_open(resource_type) == FALSE
IsUnregistered(resource_type) == resource_type \notin resource_handlers

\* What handler.resolve(query) does: it returns a string, returns None, or
\* raises (a ClientError with an error code, or any other exception).
HandlerReturn(v) == [kind |-> "return", value |-> v]
HandlerRaise(e) == [kind |-> "raise", value |-> e]

\* `except ClientError` and `except Exception` around the session and the
\* handler: the classes of error that end as the result None.
Caught_client_only(error) == error = "ClientError"
Caught(error) == error \in {"ClientError", "ValueError", "Exception"}

\* env = [sts |-> ..., handler |-> ...]: the remote side of this one call.
resolve_aws_resource(ss, id, resource_type, query, account_id, role_name, env) ==
    LET WithSession(g) ==
            IF g.tag = "raise"
            THEN [tag |-> IF Caught(g.error) THEN "return" ELSE "raise",
                  value |-> None, sessions |-> g.sessions,
                  key |-> g.key, sessionReqs |-> 1, creates |-> g.creates,
                  assumes |-> g.assumes, handlerCalls |-> 0]
            ELSE [tag |-> IF env.handler.kind = "raise"
                             /\ ~Caught(env.handler.value)
                          THEN "raise" ELSE "return",
                  value |-> IF env.handler.kind = "return"
                            THEN env.handler.value ELSE None,
                  sessions |-> g.sessions, key |-> g.key, sessionReqs |-> 1,
                  creates |-> g.creates, assumes |-> g.assumes,
                  handlerCalls |-> 1]
    IN IF IsUnregistered(resource_type)
       THEN [tag |-> "raise", value |-> None, sessions |-> ss, key |-> <<>>,
             sessionReqs |-> 0, creates |-> 0, assumes |-> 0, handlerCalls |-> 0]
       ELSE WithSession(get_session(ss, id, account_id, role_name, env.sts))

----------------------------------------------------------------------------
(* aws/cache.py: CachedResourceResolver *)

\* repr() of a str: double quotes only when the string holds a single quote
\* and no double quote; the quote character and backslashes are escaped.
ReprChar(c, q) ==
    IF c = "\\" THEN <<"\\", "\\">>
    ELSE IF c = "\n" THEN <<"\\", "n">>
    ELSE IF c = "\t" THEN <<"\\", "t">>
    ELSE IF c = q THEN <<"\\", c>>
    ELSE <<c>>

RECURSIVE ReprBody(_, _)
ReprBody(s, q) ==
    IF s = <<>> THEN <<>> ELSE ReprChar(Head(s), q) \o ReprBody(Tail(s), q)

Repr(s) ==
    LET has1 == \E i \in 1..Len(s) : s[i] = "'"
        has2 == \E i \in 1..Len(s) : s[i] = "\""
        q == IF has1 /\ ~has2 THEN "\"" ELSE "'"
    IN <<q>> \o ReprBody(s, q) \o <<q>>

\* str() of the query dict: its items in insertion order.
RECURSIVE DictItems(_)
DictItems(query) ==
    IF query = <<>> THEN <<>>
    ELSE Repr(query[1][1]) \o <<":", " ">> \o Repr(query[1][2])
         \o (IF Len(query) > 1 THEN <<",", " ">> ELSE <<>>)
         \o DictItems(Tail(query))

StrDict(query) == <<"{">> \o DictItems(query) \o <<"}">>

cache_key_canonical(resource_type, query, account_id, role_name) ==
    <<Str(account_id), Str(role_name), resource_type,
      {query[i] : i \in DOMAIN query}>>
cache_key(resource_type, query, account_id, role_name) ==
    Str(account_id) \o <<":">> \o Str(role_name) \o <<":">> \o resource_type
    \o <<":">> \o StrDict(query)

StoreResult_always(c, key, result) == Put(c, key, result)
StoreResult(c, key, result) == IF result # None THEN Put(c, key, result) ELSE c

CacheHit_never(c, key) == FALSE
CacheHit(c, key) == key \in DOMAIN c

cached_resolve_aws_resource(c, ss, id, resource_type, query, account_id, role_name, env) ==
    LET Miss(key, b) ==
            [tag |-> b.tag, value |-> b.value,
             cache |-> IF b.tag = "return" THEN StoreResult(c, key, b.value)
                       ELSE c,
             sessions |-> b.sessions, key |-> b.key, baseCalls |-> 1,
             sessionReqs |-> b.sessionReqs, creates |-> b.creates,
             assumes |-> b.assumes, handlerCalls |-> b.handlerCalls]
        Keyed(key) ==
            IF CacheHit(c, key)
            THEN [tag |-> "return", value |-> c[key], cache |-> c,
                  sessions |-> ss, key |-> <<>>, baseCalls |-> 0,
                  sessionReqs |-> 0, creates |-> 0, assumes |-> 0,
                  handlerCalls |-> 0]
            ELSE Miss(key, resolve_aws_resource(ss, id, resource_type, query,
                                                account_id, role_name, env))
    IN Keyed(cache_key(resource_type, query, account_id, role_name))

----------------------------------------------------------------------------
(* aws/resolver.py: parse_resource_identifier *)

Whitespace == {" ", "\t", "\n", "\r"}

RECURSIVE LStripWs(_)
LStripWs(s) ==
    IF s # <<>> /\ Head(s) \in Whitespace THEN LStripWs(Tail(s)) ELSE s

RECURSIVE RStripWs(_)
RStripWs(s) ==
    IF s # <<>> /\ s[Len(s)] \in Whitespace
    THEN RStripWs(SubSeq(s, 1, Len(s) - 1)) ELSE s

Strip_left(s) == LStripWs(s)
Strip(s) == RStripWs(LStripWs(s))

\* First index i >= from with s[i] = c, or 0 when there is none.
IndexOf(s, c, from) ==
    LET hits == {i \in from..Len(s) : s[i] = c}
    IN IF hits = {} THEN 0 ELSE CHOOSE i \in hits : \A j \in hits : i <= j

\* str.split(sep) for a one-character separator.
RECURSIVE Split(_, _)
Split(s, sep) ==
    LET i == IndexOf(s, sep, 1)
    IN IF i = 0 THEN <<s>>
       ELSE <<SubSeq(s, 1, i - 1)>> \o Split(SubSeq(s, i + 1, Len(s)), sep)

\* The tail "(.+)$" of identifier_pattern from index `from`: at least one
\* character, none a line break, up to the end (or to one final line break).
PatternRest(s, from) ==
    LET r == SubSeq(s, from, Len(s))
        body == IF r # <<>> /\ r[Len(r)] = "\n" THEN SubSeq(r, 1, Len(r) - 1)
                ELSE r
    IN [ok |-> body # <<>> /\ \A i \in 1..Len(body) : body[i] # "\n",
        text |-> body]

\* "([^:]+):(.+)$" from index `from`.
PatternTypeQuery(s, from) ==
    LET Rest(c, rest) ==
            [ok |-> c > from /\ rest.ok, type |-> SubSeq(s, from, c - 1),
             query |-> rest.text]
        At(c) == Rest(c, PatternRest(s, c + 1))
    IN At(IndexOf(s, ":", from))

S_roleeq == <<"r", "o", "l", "e", "=">>

\* identifier_pattern.match(identifier): the optional role group is tried
\* first, and skipped when the rest does not match with it.
identifier_pattern(s) ==
    LET NoMatch == [ok |-> FALSE, role |-> None, type |-> <<>>, query |-> <<>>]
        Plain(t) ==
            [ok |-> t.ok, role |-> None, type |-> t.type, query |-> t.query]
        Role(p, c, t) ==
            IF c > p /\ t.ok
            THEN [ok |-> TRUE, role |-> SubSeq(s, p, c - 1), type |-> t.type,
                  query |-> t.query]
            ELSE Plain(PatternTypeQuery(s, Len(S_aws) + 1))
        RoleAt(p, c) == Role(p, c, PatternTypeQuery(s, c + 1))
        RoleFrom(p) == RoleAt(p, IndexOf(s, ":", p))
    IN IF ~StartsWith(s, S_aws) THEN NoMatch
       ELSE IF StartsWith(s, S_aws \o S_roleeq)
       THEN RoleFrom(Len(S_aws) + Len(S_roleeq) + 1)
       ELSE Plain(PatternTypeQuery(s, Len(S_aws) + 1))

\* query_params[key] = value on a dict kept as its items in insertion order.
DictSet_first(d, key, value) ==
    IF \E i \in 1..Len(d) : d[i][1] = key THEN d
    ELSE Append(d, <<key, value>>)
DictSet(d, key, value) ==
    IF \E i \in 1..Len(d) : d[i][1] = key
    THEN [i \in 1..Len(d) |-> IF d[i][1] = key THEN <<key, value>> ELSE d[i]]
    ELSE Append(d, <<key, value>>)

\* The loop over query_str.split(','); "raise" as soon as a parameter is bad.
RECURSIVE ParseParams(_, _)
ParseParams(params, d) ==
    LET Pair(key, value) ==
            IF key = <<>> \/ value = <<>> THEN [tag |-> "raise", query |-> <<>>]
            ELSE ParseParams(Tail(params), DictSet(d, key, value))
        Param(param, e) ==
            IF param = <<>> THEN ParseParams(Tail(params), d)
            ELSE IF e = 0 THEN [tag |-> "raise", query |-> <<>>]
            ELSE Pair(Strip(SubSeq(param, 1, e - 1)),
                      Strip(SubSeq(param, e + 1, Len(param))))
        Stripped(param) == Param(param, IndexOf(param, "=", 1))
    IN IF params = <<>> THEN [tag |-> "return", query |-> d]
       ELSE Stripped(Strip(Head(params)))

parse_resource_identifier(identifier) ==
    LET Failed == [tag |-> "raise", account_id |-> None, role_name |-> None,
                   resource_type |-> <<>>, query |-> <<>>]
        Params(m, q) ==
            IF q.tag = "raise" THEN Failed
            ELSE [tag |-> "return", account_id |-> None, role_name |-> m.role,
                  resource_type |-> m.type, query |-> q.query]
        Matched(m) ==
            IF ~m.ok THEN Failed
            ELSE Params(m, ParseParams(Split(m.query, ","), <<>>))
    IN Matched(identifier_pattern(identifier))

\* getattr(handler, 'required_params', []) of the handler built for a
\* registered type: ECRResource.__init__ sets ['name'], no other handler
\* sets the attribute.
required_params(resource_type) ==
    IF resource_type = S_ecr THEN <<S_name>> ELSE <<>>

HasKey(query, key) == \E i \in DOMAIN query : query[i][1] = key

\* validate_resource_reference(identifier): the ValueError of the parser is
\* caught; the handler is built on no session and never asked to resolve.
validate_resource_reference_lax(identifier) ==
    LET Parsed(p) == p.tag = "return" /\ ~IsUnregistered(p.resource_type)
    IN [tag |-> "return",
        value |-> Parsed(parse_resource_identifier(identifier))]
validate_resource_reference(identifier) ==
    LET Required(p, required) ==
            \A i \in DOMAIN required : HasKey(p.query, required[i])
        Parsed(p) ==
            IF p.tag = "raise" THEN FALSE
            ELSE IF IsUnregistered(p.resource_type) THEN FALSE
            ELSE Required(p, required_params(p.resource_type))
    IN [tag |-> "return",
        value |-> Parsed(parse_resource_identifier(identifier))]

----------------------------------------------------------------------------
(* kustforge/core/wrapper.py: variable_pattern and process_variables *)

\* Number of consecutive whitespace characters of s from index `from`.
RECURSIVE WsRun(_, _)
WsRun(s, from) ==
    IF from <= Len(s) /\ s[from] \in Whitespace THEN 1 + WsRun(s, from + 1)
    ELSE 0

\* "\s*}}" matches at index e.
ClosesAt(s, e) ==
    LET t == e + WsRun(s, e)
    IN t + 1 <= Len(s) /\ s[t] = "}" /\ s[t + 1] = "}"

\* "{{\s*(.+?)\s*}}" with "{{" at index i, w whitespace characters skipped
\* and a group of g characters (none a line break).
MatchesWith(s, i, w, g) ==
    /\ i + 1 + w + g <= Len(s)
    /\ s[i] = "{" /\ s[i + 1] = "{"
    /\ ClosesAt(s, i + 2 + w + g)
    /\ \A k \in (i + 2)..(i + 1 + w) : s[k] \in Whitespace
    /\ \A k \in (i + 2 + w)..(i + 1 + w + g) : s[k] # "\n"

\* The match the regex engine finds at index i: the longest leading
\* whitespace run first (greedy), then the shortest group (lazy).
MatchAt(s, i) ==
    LET Max(S) == CHOOSE x \in S : \A y \in S : y <= x
        Min(S) == CHOOSE x \in S : \A y \in S : x <= y
        NoMatch == [ok |-> FALSE, start |-> 0, stop |-> 0, group |-> <<>>]
        Group(w, g) ==
            [ok |-> TRUE, start |-> i,
             stop |-> i + 2 + w + g + WsRun(s, i + 2 + w + g) + 1,
             group |-> SubSeq(s, i + 2 + w, i + 1 + w + g)]
        Lazy(w) == Group(w, Min({g \in 1..Len(s) : MatchesWith(s, i, w, g)}))
        Greedy(ws) == IF ws = {} THEN NoMatch ELSE Lazy(Max(ws))
    IN IF i + 1 <= Len(s) /\ s[i] = "{" /\ s[i + 1] = "{"
       THEN Greedy({w \in 0..WsRun(s, i + 2) :
                        \E g \in 1..Len(s) : MatchesWith(s, i, w, g)})
       ELSE NoMatch

\* The leftmost match starting at index pos or later.
NextMatch(s, pos) ==
    LET First(starts) ==
            IF starts = {}
            THEN [ok |-> FALSE, start |-> 0, stop |-> 0, group |-> <<>>]
            ELSE MatchAt(s, CHOOSE i \in starts : \A j \in starts : i <= j)
    IN First({i \in pos..Len(s) : MatchAt(s, i).ok})

----------------------------------------------------------------------------
(* The files under the target directory *)

\* A path is the sequence of its components below `directory`; a component
\* and a file content are strings.  fs maps the path of each file to its
\* content.
Directory == <<"k", "8", "s">>
S_marker == <<".", "k", "u", "s", "t", "o", "m", "i", "z", "e", "-", "b", "a", "c", "k", "u", "p">>
S_dot == <<".">>
S_yaml == <<".", "y", "a", "m", "l">>
S_yml == <<".", "y", "m", "l">>
S_yaml_template == <<".", "y", "a", "m", "l", ".", "t", "e", "m", "p", "l", "a", "t", "e">>
S_yml_template == <<".", "y", "m", "l", ".", "t", "e", "m", "p", "l", "a", "t", "e">>
S_template == <<".", "t", "e", "m", "p", "l", "a", "t", "e">>

basename(p) == p[Len(p)]
dirname(p) == SubSeq(p, 1, Len(p) - 1)

\* os.path.join(base, *components)
RECURSIVE JoinPath(_, _)
JoinPath(base, components) ==
    IF components = <<>> THEN base
    ELSE JoinPath(base \o <<"/">> \o Head(components), Tail(components))

\* s.replace(old, '')
RECURSIVE Remove(_, _)
Remove(s, old) ==
    IF s = <<>> THEN <<>>
    ELSE IF StartsWith(s, old) THEN Remove(SubSeq(s, Len(old) + 1, Len(s)), old)
    ELSE <<Head(s)>> \o Remove(Tail(s), old)

\* s.lstrip('.')
RECURSIVE LStripDots(_)
LStripDots(s) == IF s # <<>> /\ Head(s) = "." THEN LStripDots(Tail(s)) ELSE s

\* The operating system, io = [faults, linesep].  linesep is os.linesep.
\* faults says what happens with one path: nothing in the map, or
\*   "read":  opening the file for reading (and copying it) fails;
\*   "open":  opening the file for writing fails, the file is unchanged;
\*   "write": the file is opened for writing, truncated, and the write fails.
FaultKinds == {"read", "open", "write"}
FaultOf(io, p) == Get(io.faults, p, "ok")
LF == <<"\n">>
CRLF == <<"\r", "\n">>

\* What a file opened in text mode gives to read(): '\r\n' and '\r' are
\* read as '\n' (newline=None).
RECURSIVE UniversalNewlines(_)
UniversalNewlines(s) ==
    IF s = <<>> THEN <<>>
    ELSE IF StartsWith(s, CRLF)
    THEN LF \o UniversalNewlines(SubSeq(s, 3, Len(s)))
    ELSE IF Head(s) = "\r" THEN LF \o UniversalNewlines(Tail(s))
    ELSE <<Head(s)>> \o UniversalNewlines(Tail(s))

\* What write() puts in a file opened in text mode: os.linesep for '\n'.
RECURSIVE TextWrite(_, _)
TextWrite(s, linesep) ==
    IF s = <<>> THEN <<>>
    ELSE (IF Head(s) = "\n" THEN linesep ELSE <<Head(s)>>)
         \o TextWrite(Tail(s), linesep)

\* open(path, 'r').read()
ReadFile(f, io, p) ==
    IF p \in DOMAIN f /\ FaultOf(io, p) # "read"
    THEN [ok |-> TRUE, content |-> UniversalNewlines(f[p])]
    ELSE [ok |-> FALSE, content |-> <<>>]

\* The bytes reach the file at path p, or the fault of p happens.
StoreFile(f, io, p, bytes) ==
    IF FaultOf(io, p) = "open" THEN [ok |-> FALSE, fs |-> f]
    ELSE IF FaultOf(io, p) = "write" THEN [ok |-> FALSE, fs |-> Put(f, p, <<>>)]
    ELSE [ok |-> TRUE, fs |-> Put(f, p, bytes)]

\* open(path, 'w').write(content)
WriteFile(f, io, p, content) == StoreFile(f, io, p, TextWrite(content, io.linesep))

\* shutil.copy2(src, dst): the bytes of src, as they are.
CopyFile(f, io, src, dst) ==
    IF src \in DOMAIN f /\ FaultOf(io, src) # "read"
    THEN StoreFile(f, io, dst, f[src])
    ELSE [ok |-> FALSE, fs |-> f]

\* The orders in which os.walk can yield the files S: the files of a
\* directory before the files of the directories below it, the entries of
\* one directory in any order.
WalkOrders(S) ==
    {o \in [1..Cardinality(S) -> S] :
        /\ \A i, j \in 1..Cardinality(S) : i # j => o[i] # o[j]
        /\ \A i, j \in 1..Cardinality(S) :
            (i < j) => ~(/\ Len(dirname(o[j])) < Len(dirname(o[i]))
                         /\ SubSeq(dirname(o[i]), 1, Len(dirname(o[j])))
                                = dirname(o[j]))}

----------------------------------------------------------------------------
(* utils/rollback.py: RollbackManager *)

\* datetime.now().strftime('%Y%m%d_%H%M%S'): one name per second of the clock.
DigitOf == <<"0", "1", "2", "3", "4", "5", "6", "7", "8", "9">>
strftime(now) == <<"T", DigitOf[now + 1]>>

\* `if '.kustomize-backup' in root: continue`
SkipsRoot(root) == Contains(root, S_marker)

\* `file.endswith(('.yaml', '.yml')) and not file.startswith('.')`
IsBackedUpName(file) ==
    (EndsWith(file, S_yaml) \/ EndsWith(file, S_yml)) /\ ~StartsWith(file, S_dot)

\* The files backup_existing_manifests copies.
BackupCandidates(f) ==
    {p \in DOMAIN f : /\ ~SkipsRoot(JoinPath(Directory, dirname(p)))
                      /\ IsBackedUpName(basename(p))}

\* The rollback manager after __init__.  current_backup is the dict in
\* insertion order, as a sequence of <<path, content>>; None and {} are both
\* <<>>, the code telling them apart nowhere (`if not self.current_backup`).
\* backup_dir is None as <<>>.
NoRollback == [backup_dir |-> <<>>, current_backup |-> <<>>]

BackupPaths(current_backup) == {current_backup[i][1] : i \in DOMAIN current_backup}

\* The loop of backup_existing_manifests over the files in walk order: the
\* in-memory copy, then the copy on disk; an error leaves the loop.
RECURSIVE BackupFiles(_, _, _, _, _)
BackupFiles(f, io, backup_dir, order, mem) ==
    LET Copied(mem2, c) ==
            IF c.ok
            THEN BackupFiles(c.fs, io, backup_dir, Tail(order), mem2)
            ELSE [tag |-> "raise", fs |-> c.fs, current_backup |-> mem2]
        Read(p, r) ==
            IF r.ok
            THEN Copied(DictSet(mem, p, r.content),
                        CopyFile(f, io, p, backup_dir \o p))
            ELSE [tag |-> "raise", fs |-> f, current_backup |-> mem]
        One(p) == Read(p, ReadFile(f, io, p))
    IN IF order = <<>>
       THEN [tag |-> "return", fs |-> f, current_backup |-> mem]
       ELSE One(Head(order))

backup_existing_manifests(f, io, now, order) ==
    LET Done(backup_dir, r) ==
            [tag |-> r.tag, fs |-> r.fs,
             rollback |-> [backup_dir |-> backup_dir,
                           current_backup |-> r.current_backup]]
        In(backup_dir) ==
            Done(backup_dir, BackupFiles(f, io, backup_dir, order, <<>>))
    IN In(<<S_marker, strftime(now)>>)

\* `except Exception` inside the loop of restore_manifests: the loop goes on.
GoesOn_abort(ok) == ok
GoesOn(ok) == TRUE

\* The loop of restore_manifests over current_backup.items().
RECURSIVE RestoreFiles(_, _, _, _, _)
RestoreFiles(f, io, items, attempted, failed) ==
    LET Written(p, w) ==
            IF GoesOn(w.ok)
            THEN RestoreFiles(w.fs, io, Tail(items), attempted \cup {p},
                              IF w.ok THEN failed ELSE failed \cup {p})
            ELSE [tag |-> "raise", fs |-> w.fs, attempted |-> attempted \cup {p},
                  failed |-> failed \cup {p}]
        One(item) == Written(item[1], WriteFile(f, io, item[1], item[2]))
    IN IF items = <<>>
       THEN [tag |-> "return", fs |-> f, attempted |-> attempted,
             failed |-> failed]
       ELSE One(Head(items))

restore_manifests(f, io, rb) ==
    IF rb.current_backup = <<>>
    THEN [tag |-> "return", fs |-> f, attempted |-> {}, failed |-> {}]
    ELSE RestoreFiles(f, io, rb.current_backup, {}, {})

----------------------------------------------------------------------------
(* utils/validation.py: TemplateValidator *)

S_apiVersion == <<"a", "p", "i", "V", "e", "r", "s", "i", "o", "n">>
S_kind == <<"k", "i", "n", "d">>
S_metadata == <<"m", "e", "t", "a", "d", "a", "t", "a">>
S_namecolon == <<"n", "a", "m", "e", ":">>

Occurrences(s, c) == Cardinality({i \in 1..Len(s) : s[i] = c})

\* yaml.safe_load on the documents of the model: block mappings of plain
\* scalars and of one-level flow mappings.  A flow collection that is not
\* closed, and a mapping used as a key ("{{ x }}"), are YAML errors; a
\* document without content loads as None.
YamlLines(content) == Split(content, "\n")
YamlTop(content) ==
    {l \in {YamlLines(content)[i] : i \in 1..Len(YamlLines(content))} :
        l # <<>> /\ Head(l) # " " /\ IndexOf(l, ":", 1) > 0}
YamlKey(l) == SubSeq(l, 1, IndexOf(l, ":", 1) - 1)
YamlValue(l) == LStripWs(SubSeq(l, IndexOf(l, ":", 1) + 1, Len(l)))
safe_load(content) ==
    IF \/ Contains(content, <<"{", "{">>)
       \/ Occurrences(content, "[") # Occurrences(content, "]")
       \/ Occurrences(content, "{") # Occurrences(content, "}")
    THEN [kind |-> "error", keys |-> {}, metadata |-> "absent"]
    ELSE IF Strip(content) = <<>>
    THEN [kind |-> "none", keys |-> {}, metadata |-> "absent"]
    ELSE IF YamlTop(content) = {}
    THEN [kind |-> "scalar", keys |-> {}, metadata |-> "absent"]
    ELSE [kind |-> "mapping",
          keys |-> {YamlKey(l) : l \in YamlTop(content)},
          metadata |->
            IF \A l \in YamlTop(content) : YamlKey(l) # S_metadata THEN "absent"
            ELSE IF \E l \in YamlTop(content) :
                        /\ YamlKey(l) = S_metadata
                        /\ StartsWith(YamlValue(l), <<"{">>)
                        /\ Contains(YamlValue(l), S_namecolon)
            THEN "named"
            ELSE IF \E l \in YamlTop(content) :
                        /\ YamlKey(l) = S_metadata
                        /\ StartsWith(YamlValue(l), <<"{">>)
            THEN "mapping"
            ELSE "scalar"]

\* The errors of _validate_kubernetes_manifest, as a set.
validate_kubernetes_manifest(y) ==
    (IF {S_apiVersion, S_kind, S_metadata} \subseteq y.keys THEN {}
     ELSE {"Missing required fields"})
    \cup (IF y.metadata = "scalar" THEN {"metadata must be a mapping"}
          ELSE IF y.metadata = "mapping" THEN {"metadata.name is required"}
          ELSE {})

\* validate_manifest: after a YAML error the name yaml_content is unbound,
\* and its use in the second check raises UnboundLocalError.
validate_manifest(content) ==
    LET Loaded(y) ==
            IF y.kind = "error" THEN [tag |-> "raise", errors |-> {}]
            ELSE IF y.kind = "none"
            THEN [tag |-> "return", errors |-> {"Empty YAML document"}]
            ELSE IF y.kind = "scalar"
            THEN [tag |-> "return",
                  errors |-> {"Top-level YAML must be a mapping"}]
            ELSE [tag |-> "return", errors |-> validate_kubernetes_manifest(y)]
    IN Loaded(safe_load(content))

\* validate_changes; cluster is what `kubectl apply --dry-run=server`
\* reports for every manifest of the batch ("ok" or "warning").
RECURSIVE validate_changes(_, _)
validate_changes(changes, cluster) ==
    LET Rest(valid, r) ==
            IF r.tag = "raise" THEN r
            ELSE [tag |-> "return", value |-> valid /\ r.value]
        Checked(v) ==
            IF v.tag = "raise" THEN [tag |-> "raise", value |-> FALSE]
            ELSE Rest(v.errors = {} /\ cluster = "ok",
                      validate_changes(Tail(changes), cluster))
        One(change) ==
            IF ~(\/ EndsWith(basename(change.output_path), S_yaml)
                 \/ EndsWith(basename(change.output_path), S_yml))
            THEN validate_changes(Tail(changes), cluster)
            ELSE Checked(validate_manifest(change.processed_content))
    IN IF changes = <<>> THEN [tag |-> "return", value |-> TRUE]
       ELSE One(Head(changes))

----------------------------------------------------------------------------
(* kustforge/core/processor.py: TemplateProcessor *)

S_dollar == <<"$", "{">>

\* re.sub(r'\${(aws:[^}]+)}', ...): the leftmost match starting at index pos
\* or later; the group is 'aws:' and at least one character that is no "}".
RefMatchAt(s, i) ==
    LET Closed(close) ==
            IF close > i + 6
            THEN [ok |-> TRUE, start |-> i, stop |-> close,
                  group |-> SubSeq(s, i + 2, close - 1)]
            ELSE [ok |-> FALSE, start |-> 0, stop |-> 0, group |-> <<>>]
    IN IF /\ i + 6 <= Len(s)
          /\ SubSeq(s, i, i + 1) = S_dollar
          /\ SubSeq(s, i + 2, i + 5) = S_aws
       THEN Closed(IndexOf(s, "}", i + 6))
       ELSE [ok |-> FALSE, start |-> 0, stop |-> 0, group |-> <<>>]

NextRef(s, pos) ==
    LET First(starts) ==
            IF starts = {}
            THEN [ok |-> FALSE, start |-> 0, stop |-> 0, group |-> <<>>]
            ELSE RefMatchAt(s, CHOOSE i \in starts : \A j \in starts : i <= j)
    IN First({i \in pos..Len(s) : RefMatchAt(s, i).ok})

\* process_reference(reference).  The resolver is called with the one
\* argument aws_ref: resolve_aws_resource takes resource_type and query, so
\* the call raises TypeError before the resolver does anything.
process_reference(configured, reference) ==
    IF ~configured THEN [tag |-> "raise", error |-> "ValueError", value |-> None]
    ELSE IF ~StartsWith(reference, S_aws)
    THEN [tag |-> "raise", error |-> "ValueError", value |-> None]
    ELSE [tag |-> "raise", error |-> "TypeError", value |-> None]

\* replace_reference(match): only ValueError is caught, with a warning and
\* the text of the match as the replacement; re.sub takes a replacement of
\* None as the empty string.
replace_reference(configured, s, m) ==
    LET Handled(r) ==
            IF r.tag = "return"
            THEN [tag |-> "return", error |-> "none", warnings |-> 0,
                  text |-> IF r.value = None THEN <<>> ELSE r.value]
            ELSE IF r.error = "ValueError"
            THEN [tag |-> "return", error |-> "none", warnings |-> 1,
                  text |-> SubSeq(s, m.start, m.stop)]
            ELSE [tag |-> "raise", error |-> r.error, warnings |-> 0,
                  text |-> <<>>]
    IN Handled(process_reference(configured, m.group))

\* The re.sub of process_template from index pos, with out written so far.
RECURSIVE SubReferences(_, _, _, _, _)
SubReferences(configured, s, pos, out, warnings) ==
    LET Replaced(m, r) ==
            IF r.tag = "raise"
            THEN [tag |-> "raise", error |-> r.error, value |-> <<>>,
                  warnings |-> warnings]
            ELSE SubReferences(configured, s, m.stop + 1,
                               out \o SubSeq(s, pos, m.start - 1) \o r.text,
                               warnings + r.warnings)
        Found(m) ==
            IF ~m.ok
            THEN [tag |-> "return", error |-> "none",
                  value |-> out \o SubSeq(s, pos, Len(s)),
                  warnings |-> warnings]
            ELSE Replaced(m, replace_reference(configured, s, m))
    IN Found(NextRef(s, pos))

\* process_template(template, is_file=False, validate)
process_template(configured, content, validate) ==
    LET Validated(p, v) ==
            IF v.tag = "raise"
            THEN [p EXCEPT !.tag = "raise", !.error = "UnboundLocalError"]
                 @@ [errors |-> {}]
            ELSE IF v.errors # {}
            THEN [p EXCEPT !.tag = "raise", !.error = "ValueError"]
                 @@ [errors |-> v.errors]
            ELSE p @@ [errors |-> {}]
        Processed(p) ==
            IF p.tag = "raise" \/ ~validate THEN p @@ [errors |-> {}]
            ELSE Validated(p, validate_manifest(p.value))
    IN Processed(SubReferences(configured, content, 1, <<>>, 0))

----------------------------------------------------------------------------
(* kustforge/core/wrapper.py: process_files, apply_changes,                 *)
(* remove_generated_files                                                   *)

\* `file.startswith('.') and file.endswith(('.yaml.template', '.yml.template'))`
IsTemplateName(file) ==
    /\ StartsWith(file, S_dot)
    /\ (EndsWith(file, S_yaml_template) \/ EndsWith(file, S_yml_template))

TemplatePaths(f) == {p \in DOMAIN f : IsTemplateName(basename(p))}

\* os.path.join(root, file.replace('.template', '').lstrip('.'))
OutputPath(template_path) ==
    Append(dirname(template_path),
           LStripDots(Remove(basename(template_path), S_template)))

FileChange(template_path, original_content, processed_content) ==
    [template_path |-> template_path, output_path |-> OutputPath(template_path),
     original_content |-> original_content,
     processed_content |-> processed_content]

\* The loop of apply_changes over the changes: it ends at the first write
\* that fails.
RECURSIVE WriteChanges(_, _, _, _)
WriteChanges(f, io, changes, written) ==
    LET Written(p, w) ==
            IF w.ok
            THEN WriteChanges(w.fs, io, Tail(changes),
                              Append(written, [path |-> p, ok |-> TRUE]))
            ELSE [ok |-> FALSE, fs |-> w.fs,
                  written |-> Append(written, [path |-> p, ok |-> FALSE])]
        One(change) ==
            Written(change.output_path,
                    WriteFile(f, io, change.output_path,
                              change.processed_content))
    IN IF changes = <<>> THEN [ok |-> TRUE, fs |-> f, written |-> written]
       ELSE One(Head(changes))

\* The `except Exception` clause of apply_changes.
OnApplyError_silent(f, io, rb) ==
    [tag |-> "return", fs |-> f, attempted |-> {}, failed |-> {},
     restores |-> 0]
OnApplyError(f, io, rb) ==
    restore_manifests(f, io, rb) @@ [restores |-> 1]

\* apply_changes(changes, dry_run): value is what it returns; written, the
\* writes attempted and whether each succeeded, in order; failed, whether a write
\* failed; restores, the calls of restore_manifests.
apply_changes(f, io, rb, changes, dry_run, cluster) ==
    LET Result(value, written, failed, r) ==
            [tag |-> r.tag, value |-> value, fs |-> r.fs, written |-> written,
             failed |-> failed, restores |-> r.restores]
        Intact == [tag |-> "return", fs |-> f, restores |-> 0]
        Validated(v) ==
            IF v.tag = "raise"
            THEN Result(FALSE, <<>>, FALSE, OnApplyError(f, io, rb))
            ELSE Result(v.value, <<>>, FALSE, Intact)
        Wrote(w) ==
            IF w.ok
            THEN Result(TRUE, w.written, FALSE,
                        [tag |-> "return", fs |-> w.fs, restores |-> 0])
            ELSE Result(FALSE, w.written, TRUE,
                        OnApplyError(w.fs, io, rb))
    IN IF dry_run THEN Validated(validate_changes(changes, cluster))
       ELSE Wrote(WriteChanges(f, io, changes, <<>>))

\* KeyboardInterrupt is no Exception: the `except Exception` clause of
\* apply_changes does not run for it, and it leaves apply_changes.
OnInterrupt_restores(f, io, rb) ==
    restore_manifests(f, io, rb) @@ [restores |-> 1]
OnInterrupt(f, io, rb) ==
    [tag |-> "raise", fs |-> f, attempted |-> {}, failed |-> {},
     restores |-> 0]

\* apply_changes(changes) when the user interrupts it after k files were
\* written: before the next file is opened, or (opened) after open() has
\* truncated it and before its content is written.  ok tells whether the k
\* writes succeeded, so that the interrupt came while the batch was written.
apply_changes_interrupted(f, io, rb, changes, k, opened) ==
    LET Interrupted(w, r) ==
            [tag |-> "raise", ok |-> w.ok, fs |-> r.fs, written |-> w.written,
             restores |-> r.restores]
        Opened(g, p) ==
            IF opened /\ FaultOf(io, p) # "open" THEN Put(g, p, <<>>) ELSE g
        Wrote(w) ==
            Interrupted(w, OnInterrupt(Opened(w.fs, changes[k + 1].output_path),
                                       io, rb))
    IN Wrote(WriteChanges(f, io, SubSeq(changes, 1, k), <<>>))

\* remove_generated_files: os.remove of every output path that exists.
remove_generated_files(f, changes) ==
    [p \in DOMAIN f \ {changes[i].output_path : i \in DOMAIN changes} |-> f[p]]

----------------------------------------------------------------------------
(* The calls made on the resolver stack, and their inputs *)

S_unknown == <<"u", "n", "k", "n", "o", "w", "n">>

T_unknown == <<"{", "{", " ", "a", "w", "s", ":", "u", "n", "k", "n", "o", "w", "n", ":", "n", "a", "m", "e", "=", "x", " ", "}", "}">>
T_rds == <<"h", ":", " ", "{", "{", " ", "a", "w", "s", ":", "r", "d", "s", ":", "n", "a", "m", "e", "=", "a", " ", "}", "}">>
T_bad == <<"{", "{", " ", "a", "w", "s", ":", "r", "d", "s", ":", "n", "a", "m", "e", "=", " ", "}", "}">>
T_mix == <<"{", "{", " ", "v", " ", "}", "}", "/", "{", "{", "a", "w", "s", ":", "r", "o", "l", "e", "=", "o", "p", "s", ":", "r", "d", "s", ":", "n", "a", "m", "e", "=", "a", "}", "}">>
T_batch == <<"{", "{", "a", "w", "s", ":", "r", "o", "l", "e", "=", "o", "p", "s", ":", "e", "c", "r", ":", "a", "=", "b", "}", "}", "{", "{", "a", "w", "s", ":", "r", "d", "s", ":", "n", "a", "m", "e", "=", "a", "}", "}", "{", "{", "v", "}", "}">>
I_rds == <<"a", "w", "s", ":", "r", "d", "s", ":", "n", "a", "m", "e", "=", "a">>
I_ecr == <<"a", "w", "s", ":", "e", "c", "r", ":", "n", "a", "m", "e", "=", "a">>
I_ecr_ab == <<"a", "w", "s", ":", "e", "c", "r", ":", "a", "=", "b">>
I_waf == <<"a", "w", "s", ":", "w", "a", "f", ":", "n", "a", "m", "e", "=", "a">>
I_bad == <<"a", "w", "s", ":", "r", "d", "s", ":", "n", "a", "m", "e", "=">>
I_plain == <<"r", "d", "s", ":", "n", "a", "m", "e", "=", "a">>
S_v == <<"v">>
S_val == <<"1">>
S_braced == <<"{", "{", "v", "}", "}">>

LookupTypes == {S_rds, S_unknown}
LookupQueries == {<<<<S_name, S_a>>>>, <<<<S_name, S_b>>>>}
LookupAccounts == {None, S_prod}
LookupRoles == {None, S_deploy}
SessionAccounts == {None, S_prod, S_111, S_unknown}
SessionRoles == {None, S_deploy, S_ops, S_dev, S_ops_arn}
StsOutcomes == {"ok", "ClientError", "Exception"}
HandlerOutcomes ==
    {HandlerReturn(S_X), HandlerReturn(S_Y), HandlerReturn(None),
     HandlerRaise("ClientError"), HandlerRaise("Exception")}
Envs == [sts : StsOutcomes, handler : HandlerOutcomes]
Templates == {T_unknown, T_rds, T_bad, T_mix}
VariableMaps == {EmptyMap, (S_v :> S_val), (S_v :> S_braced), (S_v :> None)}
RegistryTypes == {S_rds, S_ecr, S_waf}
RegistryQueries == {<<<<S_name, S_a>>>>, <<<<S_a, S_b>>>>}
RegistryTemplates == {T_batch, T_bad}
Identifiers == {I_rds, I_ecr, I_ecr_ab, I_waf, I_bad, I_plain}

NoCall ==
    [op |-> "none", origin |-> "none", rt |-> <<>>, q |-> <<>>, a |-> None,
     r |-> None, tag |-> "none", value |-> None, session |-> NoSession,
     skey |-> <<>>, baseCalls |-> 0, sessionReqs |-> 0, creates |-> 0,
     assumes |-> 0, handlerCalls |-> 0, hit |-> FALSE, seen |-> FALSE,
     seenValue |-> None, afterNone |-> FALSE, ident |-> <<>>,
     valid |-> FALSE, arn |-> <<>>, prev |-> <<None, None>>,
     env |-> [sts |-> "ok", handler |-> HandlerReturn(None)],
     errors |-> {}, warnings |-> 0, error |-> "none", configured |-> FALSE,
     validate |-> FALSE]

PvIdle ==
    [status |-> "idle", content |-> <<>>, variables |-> EmptyMap, pos |-> 1,
     out |-> <<>>, seen |-> <<>>, cached |-> TRUE, runs |-> 0]

\* The remote side is consulted only where the call reaches it: elsewhere
\* the environment of the call is fixed, so that equal calls are one step.
EnvUsed(res, env, hit) ==
    /\ res.assumes = 0 => env.sts = "ok"
    /\ (res.handlerCalls = 0 /\ ~hit) => env.handler = HandlerReturn(None)

Bump(f, key, n) == IF n = 0 THEN f ELSE Put(f, key, Count(f, key) + n)

\* One call of resolve_aws_resource, on the caching layer (cached) or on the
\* base resolver, with its effect on both caches and on the history.
DoLookup(rt, q, a, r, env, cached, origin) ==
    LET Effect(args, res, hit) ==
            /\ calls < MaxCalls
            /\ EnvUsed(res, env, hit)
            /\ calls' = calls + 1
            /\ sessions' = res.sessions
            /\ nextId' = IF res.sessions # sessions THEN nextId + 1 ELSE nextId
            /\ cache' = res.cache
            /\ createRuns' = Bump(createRuns, res.key, res.creates)
            /\ assumeRuns' = Bump(assumeRuns, res.key, res.assumes)
            /\ hist' = IF cached /\ res.tag = "return" /\ res.value # None
                          /\ args \notin DOMAIN hist
                       THEN Put(hist, args, res.value) ELSE hist
            /\ last' = [op |-> IF cached THEN "resolve" ELSE "base_resolve",
                        origin |-> origin, rt |-> rt, q |-> q, a |-> a, r |-> r,
                        tag |-> res.tag, value |-> res.value,
                        session |-> NoSession, skey |-> res.key,
                        baseCalls |-> res.baseCalls,
                        sessionReqs |-> res.sessionReqs,
                        creates |-> res.creates, assumes |-> res.assumes,
                        handlerCalls |-> res.handlerCalls, hit |-> hit,
                        seen |-> cached /\ args \in DOMAIN hist,
                        seenValue |-> IF cached THEN Get(hist, args, None)
                                      ELSE None,
                        afterNone |-> /\ cached
                                      /\ last.op = "resolve"
                                      /\ last.tag = "return"
                                      /\ last.value = None
                                      /\ <<last.rt, last.q, last.a, last.r>> = args,
                        ident |-> <<>>, valid |-> FALSE, arn |-> <<>>,
                        prev |-> <<None, None>>, env |-> env,
                        errors |-> {}, warnings |-> 0, error |-> "none",
                        configured |-> FALSE, validate |-> FALSE]
        Result(res) == Effect(<<rt, q, a, r>>, res, res.baseCalls = 0)
    IN IF cached
       THEN Result(cached_resolve_aws_resource(cache, sessions, nextId, rt, q,
                                               a, r, env))
       ELSE Result(resolve_aws_resource(sessions, nextId, rt, q, a, r, env)
                   @@ [cache |-> cache, baseCalls |-> 1])

\* resolver.resolve_aws_resource(resource_type, query, account_id, role_name)
Lookup(rt, q, a, r, env, cached) ==
    /\ pv.status # "running"
    /\ DoLookup(rt, q, a, r, env, cached, "api")
    /\ UNCHANGED <<pv, threads, fvars>>

\* session_manager.get_session(account_id, role_name)
GetSession(a, r, sts) ==
    \E g \in {get_session(sessions, nextId, a, r, sts)} :
        /\ pv.status # "running"
        /\ calls < MaxCalls
        /\ g.assumes = 0 => sts = "ok"
        /\ calls' = calls + 1
        /\ sessions' = g.sessions
        /\ nextId' = IF g.sessions # sessions THEN nextId + 1 ELSE nextId
        /\ createRuns' = Bump(createRuns, g.key, g.creates)
        /\ assumeRuns' = Bump(assumeRuns, g.key, g.assumes)
        /\ last' = [NoCall EXCEPT !.op = "get_session", !.origin = "api",
                    !.a = a, !.r = r, !.tag = g.tag, !.session = g.session,
                    !.skey = g.key, !.sessionReqs = 1,
                    !.creates = g.creates, !.assumes = g.assumes,
                    !.hit = g.key \in DOMAIN sessions, !.arn = g.arn,
                    !.prev = <<last.a, last.r>>,
                    !.env = [sts |-> sts, handler |-> HandlerReturn(None)]]
        /\ UNCHANGED <<cache, hist, pv, threads, fvars>>

\* resolver.validate_resource_reference(identifier)
Validate(identifier) ==
    \E v \in {validate_resource_reference(identifier)} :
        /\ pv.status # "running"
        /\ calls < MaxCalls
        /\ calls' = calls + 1
        /\ last' = [NoCall EXCEPT !.op = "validate", !.origin = "api",
                    !.ident = identifier, !.tag = v.tag, !.valid = v.value]
        /\ UNCHANGED <<threads, sessions, nextId, cache, createRuns, assumeRuns, hist,
                       pv, fvars>>

\* wrapper.process_variables(content, variables) is entered.
PVStart(content, variables, cached) ==
    /\ pv.status # "running"
    /\ pv.runs < MaxRuns
    /\ pv' = [status |-> "running", content |-> content,
              variables |-> variables, pos |-> 1, out |-> <<>>,
              seen |-> <<>>, cached |-> cached, runs |-> pv.runs + 1]
    /\ UNCHANGED <<threads, sessions, nextId, cache, createRuns, assumeRuns, hist,
                   calls, last, fvars>>

\* re.sub finds no further placeholder: the rest is copied and the call returns.
PVReturn ==
    /\ pv.status = "running"
    /\ ~NextMatch(pv.content, pv.pos).ok
    /\ pv' = [pv EXCEPT !.status = "returned",
                        !.out = pv.out \o SubSeq(pv.content, pv.pos, Len(pv.content)),
                        !.pos = Len(pv.content) + 1]
    /\ UNCHANGED <<threads, sessions, nextId, cache, createRuns, assumeRuns, hist,
                   calls, last, fvars>>

\* re.sub writes the text before the match and the replacement to the
\* result, and searches on behind the match; seen is the history of the
\* matches handed to replace_variable.
Emit_rescan(m, repl) ==
    [pv EXCEPT !.out = pv.out \o SubSeq(pv.content, pv.pos, m.start - 1),
               !.content = SubSeq(pv.content, 1, m.start - 1) \o repl
                           \o SubSeq(pv.content, m.stop + 1, Len(pv.content)),
               !.pos = m.start,
               !.seen = Append(pv.seen, m.start)]
Emit(m, repl) ==
    [pv EXCEPT !.out = pv.out \o SubSeq(pv.content, pv.pos, m.start - 1) \o repl,
               !.pos = m.stop + 1,
               !.seen = Append(pv.seen, m.start)]

\* replace_variable for a plain variable: str(variables.get(var_name, match.group(0)))
PVPlain ==
    /\ pv.status = "running"
    /\ \E m \in {NextMatch(pv.content, pv.pos)} :
        /\ m.ok
        /\ ~StartsWith(m.group, S_aws)
        /\ pv' = Emit(m, Str(Get(pv.variables, m.group,
                                 SubSeq(pv.content, m.start, m.stop))))
        /\ UNCHANGED <<threads, sessions, nextId, cache, createRuns, assumeRuns,
                       hist, calls, last, fvars>>

\* replace_variable for an 'aws:' reference whose identifier does not parse:
\* the ValueError of parse_resource_identifier leaves process_variables.
PVParseError ==
    /\ pv.status = "running"
    /\ \E m \in {NextMatch(pv.content, pv.pos)} :
        /\ m.ok
        /\ StartsWith(m.group, S_aws)
        /\ parse_resource_identifier(m.group).tag = "raise"
        /\ pv' = [pv EXCEPT !.status = "raised"]
        /\ UNCHANGED <<threads, sessions, nextId, cache, createRuns, assumeRuns,
                       hist, calls, last, fvars>>

\* replace_variable for an 'aws:' reference that parses: the lookup, and
\* `result or match.group(0)`; an error of the lookup leaves process_variables.
PVLookupWith(envs) ==
    /\ pv.status = "running"
    /\ \E m \in {NextMatch(pv.content, pv.pos)} :
        /\ m.ok
        /\ StartsWith(m.group, S_aws)
        /\ \E p \in {parse_resource_identifier(m.group)} :
            /\ p.tag = "return"
            /\ \E env \in envs :
                DoLookup(p.resource_type, p.query, p.account_id, p.role_name,
                         env, pv.cached, "process_variables")
            /\ pv' = IF last'.tag = "raise" THEN [pv EXCEPT !.status = "raised"]
                     ELSE Emit(m, Or(last'.value,
                                     SubSeq(pv.content, m.start, m.stop)))
            /\ UNCHANGED <<threads, fvars>>

PVLookup == PVLookupWith(Envs)

\* TemplateProcessor(aws_resolver).process_template(content, is_file=False,
\* validate); configured tells whether a resolver was given.
ProcessTemplateCall(configured, content, validate) ==
    \E p \in {process_template(configured, content, validate)} :
        /\ pv.status # "running"
        /\ calls < MaxCalls
        /\ calls' = calls + 1
        /\ last' = [NoCall EXCEPT !.op = "process_template",
                    !.origin = "processor", !.ident = content,
                    !.configured = configured, !.validate = validate,
                    !.tag = p.tag, !.error = p.error, !.value = p.value,
                    !.warnings = p.warnings, !.errors = p.errors]
        /\ UNCHANGED <<threads, sessions, nextId, cache, createRuns, assumeRuns, hist,
                       pv, fvars>>

\* TemplateValidator().validate_manifest(content)
ValidateManifest(content) ==
    \E v \in {validate_manifest(content)} :
        /\ pv.status # "running"
        /\ calls < MaxCalls
        /\ calls' = calls + 1
        /\ last' = [NoCall EXCEPT !.op = "validate_manifest",
                    !.origin = "api", !.ident = content, !.tag = v.tag,
                    !.error = IF v.tag = "raise" THEN "UnboundLocalError"
                              ELSE "none",
                    !.errors = v.errors]
        /\ UNCHANGED <<threads, sessions, nextId, cache, createRuns, assumeRuns, hist,
                       pv, fvars>>

\* parse_resource_identifier(identifier)
Parse(identifier) ==
    \E p \in {parse_resource_identifier(identifier)} :
        /\ pv.status # "running"
        /\ calls < MaxCalls
        /\ calls' = calls + 1
        /\ last' = [NoCall EXCEPT !.op = "parse", !.origin = "api",
                    !.ident = identifier, !.tag = p.tag,
                    !.error = IF p.tag = "raise" THEN "ValueError" ELSE "none",
                    !.rt = p.resource_type, !.q = p.query,
                    !.a = p.account_id, !.r = p.role_name]
        /\ UNCHANGED <<threads, sessions, nextId, cache, createRuns, assumeRuns, hist,
                       pv, fvars>>

\* A thread inside CachedResourceResolver.resolve_aws_resource: where it is,
\* its arguments, its locals (cache_key, session_key, result) and what it
\* returned.  missed tells that it went on to the base resolver.
Threads == {1, 2}
NoThread ==
    [pc |-> "idle", rt |-> <<>>, q |-> <<>>, a |-> None, r |-> None,
     key |-> <<>>, skey |-> <<>>, result |-> None, returned |-> None,
     tag |-> "none", missed |-> FALSE]

\* `return result` of the caching layer.
Returned_reread(c, key, result) == IF key \in DOMAIN c THEN c[key] ELSE result
Returned(c, key, result) == result

\* cache.py 33-36: the key is computed and looked up in the cache.
TBegin(t, rt, q, a, r) ==
    \E key \in {cache_key(rt, q, a, r)} :
        /\ threads[t].pc \in {"idle", "done"}
        /\ calls < MaxLookups
        /\ calls' = calls + 1
        /\ threads' = [threads EXCEPT ![t] =
                [NoThread EXCEPT !.rt = rt, !.q = q, !.a = a, !.r = r,
                    !.key = key,
                    !.pc = IF CacheHit(cache, key) THEN "return" ELSE "base",
                    !.result = IF CacheHit(cache, key) THEN cache[key]
                               ELSE None,
                    !.missed = ~CacheHit(cache, key)]]
        /\ UNCHANGED <<sessions, nextId, cache, createRuns, assumeRuns, hist,
                       last, pv, fvars>>

\* The base resolver up to `if session_key not in self.sessions`
\* (resolver.py 120-125, session.py 40-45).
TSessionCheck(t) ==
    \E acct \in {IF Truthy(threads[t].a) THEN resolve_account_id(threads[t].a)
                  ELSE threads[t].a} :
        /\ threads[t].pc = "base"
        /\ threads' = [threads EXCEPT ![t] =
                IF IsUnregistered(threads[t].rt)
                THEN [@ EXCEPT !.pc = "done", !.tag = "raise"]
                ELSE [@ EXCEPT !.skey = session_key(acct, threads[t].r),
                               !.pc = IF session_key(acct, threads[t].r)
                                            \in DOMAIN sessions
                                      THEN "handler" ELSE "create"]]
        /\ UNCHANGED <<sessions, nextId, cache, createRuns, assumeRuns, hist,
                       calls, last, pv, fvars>>

\* session.py 46: self.sessions[session_key] = self._create_session(...);
\* an error of the flow is caught by the resolver, which returns None.
TSessionCreate(t, sts) ==
    \E acct \in {IF Truthy(threads[t].a) THEN resolve_account_id(threads[t].a)
                  ELSE threads[t].a} :
        \E c \in {create_session(acct, threads[t].r, nextId, sts)} :
            /\ threads[t].pc = "create"
            /\ c.assumes = 0 => sts = "ok"
            /\ sessions' = IF c.tag = "return"
                           THEN StoreSession(sessions, threads[t].skey, c.session)
                           ELSE sessions
            /\ nextId' = IF c.tag = "return" THEN nextId + 1 ELSE nextId
            /\ createRuns' = Bump(createRuns, threads[t].skey, 1)
            /\ assumeRuns' = Bump(assumeRuns, threads[t].skey, c.assumes)
            /\ threads' = [threads EXCEPT ![t] =
                    IF c.tag = "return" THEN [@ EXCEPT !.pc = "handler"]
                    ELSE IF Caught(c.error) THEN [@ EXCEPT !.pc = "store"]
                    ELSE [@ EXCEPT !.pc = "done", !.tag = "raise"]]
            /\ UNCHANGED <<cache, hist, calls, last, pv, fvars>>

\* session.py 48 and resolver.py 127-145: the session stored under the key
\* is read, and the handler resolves the query on it.
THandler(t, handler) ==
    /\ threads[t].pc = "handler"
    /\ threads[t].skey \in DOMAIN sessions
    /\ threads' = [threads EXCEPT ![t] =
            IF handler.kind = "return"
            THEN [@ EXCEPT !.pc = "store", !.result = handler.value]
            ELSE IF Caught(handler.value) THEN [@ EXCEPT !.pc = "store"]
            ELSE [@ EXCEPT !.pc = "done", !.tag = "raise"]]
    /\ UNCHANGED <<sessions, nextId, cache, createRuns, assumeRuns, hist,
                   calls, last, pv, fvars>>

\* cache.py 42-43: `if result is not None: self.cache[cache_key] = result`
TStore(t) ==
    /\ threads[t].pc = "store"
    /\ cache' = StoreResult(cache, threads[t].key, threads[t].result)
    /\ threads' = [threads EXCEPT ![t].pc = "return"]
    /\ UNCHANGED <<sessions, nextId, createRuns, assumeRuns, hist, calls,
                   last, pv, fvars>>

\* cache.py 36 and 45: the return of the value.
TReturn(t) ==
    /\ threads[t].pc = "return"
    /\ threads' = [threads EXCEPT ![t] =
            [@ EXCEPT !.pc = "done", !.tag = "return",
                      !.returned = Returned(cache, threads[t].key,
                                            threads[t].result)]]
    /\ UNCHANGED <<sessions, nextId, cache, createRuns, assumeRuns, hist,
                   calls, last, pv, fvars>>

InitResolver ==
    /\ threads = [t \in Threads |-> NoThread]
    /\ sessions = EmptyMap
    /\ nextId = 1
    /\ cache = EmptyMap
    /\ createRuns = EmptyMap
    /\ assumeRuns = EmptyMap
    /\ hist = EmptyMap
    /\ calls = 0
    /\ last = NoCall
    /\ pv = PvIdle

InitFiles(tree, linesep) ==
    /\ fs = tree
    /\ os = [faults |-> EmptyMap, linesep |-> linesep]
    /\ clock = 0
    /\ rollback = [backup_dir |-> <<>>, current_backup |-> <<>>]
    /\ run = [pc |-> "idle", apply |-> FALSE, diff |-> FALSE, kind |-> "core",
              variables |-> EmptyMap, cached |-> TRUE, pre |-> EmptyMap,
              todo |-> {}, cur |-> <<>>, changes |-> <<>>, log |-> <<>>,
              written |-> <<>>, failed |-> FALSE, restores |-> 0,
              result |-> "none", exit |-> -1, mains |-> 0]
    /\ note = [op |-> "none", twice |-> FALSE, tag |-> "none",
               atBackup |-> EmptyMap, attempted |-> {}, failed |-> {},
               faultSteps |-> 0]

Init == InitResolver /\ InitFiles(EmptyMap, LF)

\* The session manager alone, under any sequence of get_session calls.
NextSession ==
    \E a \in SessionAccounts, r \in SessionRoles, sts \in StsOutcomes :
        GetSession(a, r, sts)

SpecSession == Init /\ [][NextSession]_vars

\* The resolver, cached or not, under any sequence of lookups.
NextLookup ==
    \E rt \in LookupTypes, q \in LookupQueries, a \in LookupAccounts,
       r \in LookupRoles, env \in Envs, cached \in BOOLEAN :
        Lookup(rt, q, a, r, env, cached)

SpecLookup == Init /\ [][NextLookup]_vars

\* process_variables, and the lookups it makes.
NextSubst ==
    \/ \E content \in Templates, variables \in VariableMaps, cached \in BOOLEAN :
            PVStart(content, variables, cached)
    \/ PVReturn
    \/ PVPlain
    \/ PVParseError
    \/ PVLookup

SpecSubst == Init /\ [][NextSubst]_vars

\* The caching layer under lookups whose query holds the same two
\* parameters, inserted in one order or the other.
Q_name_a == <<<<S_name, S_a>>, <<S_a, S_b>>>>
Q_a_name == <<<<S_a, S_b>>, <<S_name, S_a>>>>
OrderQueries == {Q_name_a, Q_a_name}

NextOrder ==
    \E q \in OrderQueries, a \in LookupAccounts, r \in LookupRoles,
       env \in Envs :
        Lookup(S_rds, q, a, r, env, TRUE)

SpecOrder == Init /\ [][NextOrder]_vars

\* The session manager under calls that name the account or the role
\* 'default', and under calls that name none.
KeyAccounts == {None, S_default, S_prod}
KeyRoles == {None, S_default, S_deploy}

NextSessionKeys ==
    \E a \in KeyAccounts, r \in KeyRoles, sts \in StsOutcomes :
        GetSession(a, r, sts)

SpecSessionKeys == Init /\ [][NextSessionKeys]_vars

\* The caching layer under lookups that name no account, the account 'None',
\* and accounts and roles that hold a ':'.
S_NoneText == <<"N", "o", "n", "e">>
S_a_colon_b == <<"a", ":", "b">>
S_b_colon_c == <<"b", ":", "c">>
S_c == <<"c">>
CacheKeyAccounts == {None, S_NoneText, S_a, S_a_colon_b}
CacheKeyRoles == {None, S_c, S_b_colon_c}

NextCacheKeys ==
    \E a \in CacheKeyAccounts, r \in CacheKeyRoles, env \in Envs :
        Lookup(S_rds, Q_name_a, a, r, env, TRUE)

SpecCacheKeys == Init /\ [][NextCacheKeys]_vars

\* process_variables when the remote side can answer with the empty string.
EmptyEnvs ==
    [sts : {"ok"},
     handler : {HandlerReturn(<<>>), HandlerReturn(S_X), HandlerReturn(None)}]

NextEmpty ==
    \/ \E content \in Templates, cached \in BOOLEAN :
            PVStart(content, EmptyMap, cached)
    \/ PVReturn
    \/ PVPlain
    \/ PVParseError
    \/ PVLookupWith(EmptyEnvs)

SpecEmpty == Init /\ [][NextEmpty]_vars

\* One thread on the session manager and on the caching layer.
NextCaches ==
    \/ \E a \in SessionAccounts, r \in SessionRoles, sts \in StsOutcomes :
            GetSession(a, r, sts)
    \/ \E rt \in LookupTypes, q \in LookupQueries, a \in LookupAccounts,
          r \in LookupRoles, env \in Envs :
            Lookup(rt, q, a, r, env, TRUE)

SpecCaches == Init /\ [][NextCaches]_vars

\* Two threads on one caching layer, without a lock.
RaceHandlers == {HandlerReturn(S_X), HandlerReturn(S_Y), HandlerReturn(None)}

NextRace ==
    \/ \E t \in Threads, q \in LookupQueries, r \in LookupRoles :
            TBegin(t, S_rds, q, None, r)
    \/ \E t \in Threads : TSessionCheck(t)
    \/ \E t \in Threads, sts \in StsOutcomes : TSessionCreate(t, sts)
    \/ \E t \in Threads, handler \in RaceHandlers : THandler(t, handler)
    \/ \E t \in Threads : TStore(t)
    \/ \E t \in Threads : TReturn(t)

SpecRace == Init /\ [][NextRace]_vars

\* The registry: lookups and validations of every kind of reference, from
\* the API and from process_variables.
NextRegistry ==
    \/ \E rt \in RegistryTypes, q \in RegistryQueries, r \in LookupRoles,
          env \in Envs :
            Lookup(rt, q, None, r, env, TRUE)
    \/ \E identifier \in Identifiers : Validate(identifier)
    \/ \E content \in RegistryTemplates, cached \in BOOLEAN :
            PVStart(content, EmptyMap, cached)
    \/ PVReturn
    \/ PVPlain
    \/ PVParseError
    \/ PVLookup

SpecRegistry == Init /\ [][NextRegistry]_vars

----------------------------------------------------------------------------
(* The calls made on the rollback manager, and the operating system *)

N_app == <<"a", "p", "p", ".", "y", "a", "m", "l">>
N_app_template == <<".", "a", "p", "p", ".", "y", "a", "m", "l", ".", "t", "e", "m", "p", "l", "a", "t", "e">>
N_svc == <<"s", "v", "c", ".", "y", "m", "l">>
N_cfg == <<"c", "f", "g", ".", "y", "m", "l">>
N_cfg_template == <<".", "c", "f", "g", ".", "y", "m", "l", ".", "t", "e", "m", "p", "l", "a", "t", "e">>
N_old == <<"o", "l", "d", ".", "k", "u", "s", "t", "o", "m", "i", "z", "e", "-", "b", "a", "c", "k", "u", "p", ".", "d">>
N_c == <<"c", ".", "y", "a", "m", "l">>
F_a1 == <<"a", ":", " ", "1">>
F_b2 == <<"b", ":", " ", "2", "\n">>
F_c3 == <<"c", ":", " ", "3", "\r", "\n">>
F_z9 == <<"z", ":", " ", "9">>
T_open == <<"a", ":", " ", "[">>
T_manifest == <<"a", "p", "i", "V", "e", "r", "s", "i", "o", "n", ":", " ", "v", "1", "\n", "k", "i", "n", "d", ":", " ", "{", "{", " ", "k", " ", "}", "}", "\n", "m", "e", "t", "a", "d", "a", "t", "a", ":", " ", "{", "n", "a", "m", "e", ":", " ", "n", "}">>
S_k == <<"k">>
S_K == <<"K">>

\* The directories the runs start from.
TreeApp ==
    (<<N_app>> :> F_a1) @@ (<<N_app_template>> :> T_rds) @@ (<<N_svc>> :> F_c3)
TreeOld ==
    (<<N_app>> :> F_a1) @@ (<<N_app_template>> :> T_open)
    @@ (<<N_cfg_template>> :> T_manifest) @@ (<<N_old, N_c>> :> F_b2)
TreeBad == (<<N_cfg_template>> :> T_bad) @@ (<<N_svc>> :> F_b2)
TreePlain == (<<N_svc>> :> F_b2)
TreeCfg == (<<N_cfg_template>> :> T_manifest)
Trees == {TreeApp, TreeOld, TreeBad, TreePlain}
MainVariableMaps == {EmptyMap, (S_k :> S_K)}
FaultPaths == {<<N_app>>, <<N_cfg>>, <<N_svc>>}
MutatedContents == {F_z9}

\* rollback_manager.backup_existing_manifests(directory)
Backup(order) ==
    \E r \in {backup_existing_manifests(fs, os, clock, order)} :
        /\ run.pc = "idle"
        /\ fs' = r.fs
        /\ rollback' = r.rollback
        /\ note' = [note EXCEPT !.op = "backup", !.twice = FALSE,
                        !.tag = r.tag,
                        !.atBackup = [p \in BackupCandidates(fs) |-> fs[p]],
                        !.attempted = {}, !.failed = {}]
        /\ UNCHANGED <<rvars, os, clock, run>>

\* rollback_manager.restore_manifests()
Restore ==
    \E r \in {restore_manifests(fs, os, rollback)} :
        /\ run.pc = "idle"
        /\ fs' = r.fs
        /\ note' = [note EXCEPT !.op = "restore",
                        !.twice = (note.op = "restore"),
                        !.tag = r.tag, !.attempted = r.attempted,
                        !.failed = r.failed]
        /\ UNCHANGED <<rvars, os, clock, rollback, run>>

\* Something else rewrites a manifest.
Mutate(p, content) ==
    /\ run.pc = "idle"
    /\ p \in BackupCandidates(fs)
    /\ fs[p] # content
    /\ fs' = Put(fs, p, content)
    /\ note' = [note EXCEPT !.op = "other", !.twice = FALSE, !.tag = "none",
                    !.attempted = {}, !.failed = {}]
    /\ UNCHANGED <<rvars, os, clock, rollback, run>>

\* A second passes.
Tick ==
    /\ clock < MaxClock
    /\ clock' = clock + 1
    /\ note' = [note EXCEPT !.op = "other", !.twice = FALSE, !.tag = "none",
                    !.attempted = {}, !.failed = {}]
    /\ UNCHANGED <<rvars, fs, os, rollback, run>>

\* The operating system starts, or stops, failing on one path.
SetFault(p, kind) ==
    /\ note.faultSteps < MaxFaults
    /\ FaultOf(os, p) # kind
    /\ os' = [os EXCEPT !.faults =
                    IF kind = "ok"
                    THEN [q \in DOMAIN os.faults \ {p} |-> os.faults[q]]
                    ELSE Put(os.faults, p, kind)]
    /\ note' = [note EXCEPT !.op = "other", !.twice = FALSE, !.tag = "none",
                    !.attempted = {}, !.failed = {},
                    !.faultSteps = note.faultSteps + 1]
    /\ UNCHANGED <<rvars, fs, clock, rollback, run>>

----------------------------------------------------------------------------
(* The calls made on the template processor and on the validator *)

P_ref == <<"i", "m", "a", "g", "e", ":", " ", "$", "{", "a", "w", "s", ":", "r", "d", "s", ":", "n", "a", "m", "e", "=", "a", "}">>
P_two == <<"a", ":", " ", "$", "{", "a", "w", "s", ":", "r", "d", "s", ":", "n", "a", "m", "e", "=", "a", "}", "\n", "b", ":", " ", "$", "{", "a", "w", "s", ":", "w", "a", "f", ":", "n", "a", "m", "e", "=", "b", "}">>
P_kind == <<"a", "p", "i", "V", "e", "r", "s", "i", "o", "n", ":", " ", "v", "1", "\n", "k", "i", "n", "d", ":", " ", "$", "{", "a", "w", "s", ":", "r", "d", "s", ":", "n", "a", "m", "e", "=", "a", "}", "\n", "m", "e", "t", "a", "d", "a", "t", "a", ":", " ", "{", "n", "a", "m", "e", ":", " ", "n", "}">>
P_pod == <<"a", "p", "i", "V", "e", "r", "s", "i", "o", "n", ":", " ", "v", "1", "\n", "k", "i", "n", "d", ":", " ", "P", "o", "d", "\n", "m", "e", "t", "a", "d", "a", "t", "a", ":", " ", "{", "n", "a", "m", "e", ":", " ", "n", "}">>
P_unnamed == <<"a", "p", "i", "V", "e", "r", "s", "i", "o", "n", ":", " ", "v", "1", "\n", "k", "i", "n", "d", ":", " ", "P", "o", "d", "\n", "m", "e", "t", "a", "d", "a", "t", "a", ":", " ", "{", "a", ":", " ", "b", "}">>
P_flat == <<"a", "p", "i", "V", "e", "r", "s", "i", "o", "n", ":", " ", "v", "1", "\n", "k", "i", "n", "d", ":", " ", "P", "o", "d", "\n", "m", "e", "t", "a", "d", "a", "t", "a", ":", " ", "x">>
P_empty_ref == <<"x", ":", " ", "$", "{", "a", "w", "s", ":", "}">>
P_scalar == <<"a", "b", "c">>
P_open_ref == <<"a", ":", " ", "[", "$", "{", "a", "w", "s", ":", "r", "d", "s", ":", "n", "a", "m", "e", "=", "a", "}">>

ProcessorContents ==
    {P_ref, P_two, P_kind, P_pod, P_unnamed, P_flat, P_empty_ref, P_scalar,
     P_open_ref, T_open, F_a1, <<>>}

\* The processor of ${aws:...} references and the validator, under any
\* sequence of calls.
NextProcessor ==
    \/ \E configured \in BOOLEAN, content \in ProcessorContents,
          validate \in BOOLEAN :
            ProcessTemplateCall(configured, content, validate)
    \/ \E content \in ProcessorContents : ValidateManifest(content)

SpecProcessor == Init /\ [][NextProcessor]_vars

\* The identifier grammar of the parser:
\* 'aws:[role=<name>:]<type>:<k>=<v>[,<k>=<v>...]', pad being the whitespace
\* written around every key and every value.
RECURSIVE FormatPairs(_, _)
FormatPairs(pairs, pad) ==
    IF pairs = <<>> THEN <<>>
    ELSE pad \o pairs[1][1] \o pad \o <<"=">> \o pad \o pairs[1][2] \o pad
         \o (IF Len(pairs) > 1 THEN <<",">> ELSE <<>>)
         \o FormatPairs(Tail(pairs), pad)

Format(role, type, pairs, pad) ==
    S_aws \o (IF role = None THEN <<>> ELSE S_roleeq \o role \o <<":">>)
    \o type \o <<":">> \o FormatPairs(pairs, pad)

I_invalid == <<"i", "n", "v", "a", "l", "i", "d", ":", "f", "o", "r", "m", "a", "t">>
I_empty_query == <<"a", "w", "s", ":", "r", "d", "s", ":">>
I_blank_query == <<"a", "w", "s", ":", "r", "d", "s", ":", " ">>
I_trailing == <<"a", "w", "s", ":", "r", "d", "s", ":", "n", "a", "m", "e", "=", "a", ",">>
I_gap == <<"a", "w", "s", ":", "r", "d", "s", ":", "n", "a", "m", "e", "=", "a", ",", " ", ",", "a", "=", "b">>
I_dup == <<"a", "w", "s", ":", "r", "d", "s", ":", "n", "a", "m", "e", "=", "a", ",", "a", "=", "b", ",", "n", "a", "m", "e", "=", "b">>
I_no_eq == <<"a", "w", "s", ":", "r", "d", "s", ":", "n", "a", "m", "e", "=", "a", ",", "b">>
I_no_key == <<"a", "w", "s", ":", "r", "d", "s", ":", "=", "a">>
I_blank_value == <<"a", "w", "s", ":", "r", "o", "l", "e", "=", "o", "p", "s", ":", "r", "d", "s", ":", "n", "a", "m", "e", "=", " ", ",", "a", "=", "b">>
I_only_name == <<"a", "w", "s", ":", "r", "d", "s", ":", "n", "a", "m", "e">>
S_a_b == <<"a", ":", "b">>
S_a_eq_b == <<"a", "=", "b">>

GrammarRoles == {None, S_ops, S_deploy}
GrammarTypes == {S_rds, S_ecr}
GrammarKeys == {S_name, S_a}
GrammarValues == {S_a, S_b, S_a_b, S_a_eq_b}
GrammarPads == {<<>>, <<" ">>}
GrammarPairs ==
    {<<<<k, v>>>> : k \in GrammarKeys, v \in GrammarValues}
    \cup {<<<<k1, v1>>, <<k2, v2>>>> :
            k1 \in GrammarKeys, k2 \in GrammarKeys, v1 \in GrammarValues, v2 \in GrammarValues}
WellFormed ==
    {Format(role, type, pairs, pad) :
        role \in GrammarRoles, type \in GrammarTypes,
        pairs \in {p \in GrammarPairs : Len(p) = 1 \/ p[1][1] # p[2][1]},
        pad \in GrammarPads}
Malformed ==
    {I_invalid, I_bad, I_empty_query, I_blank_query, I_trailing, I_gap, I_dup,
     I_no_eq, I_no_key, I_blank_value, I_only_name}

\* The parser alone, on the identifiers of the grammar and on others.
NextParse == \E identifier \in WellFormed \cup Malformed : Parse(identifier)

SpecParse == Init /\ [][NextParse]_vars

----------------------------------------------------------------------------
(* main.py: one run of main *)

Log(event) == Append(run.log, event)

\* main up to process_files: the arguments are parsed and the wrapper is
\* constructed, with a new session manager, cache and rollback manager.
\* kind is the KustomizeWrapper that `from core.wrapper import` finds:
\* the one of core/wrapper.py, or the one of kustforge/core/wrapper.py.
MainStart(apply, diff, kind, variables, no_cache) ==
    /\ run.pc = "idle"
    /\ run.mains < MaxMains
    /\ run' = [pc |-> "process", apply |-> apply, diff |-> diff, kind |-> kind,
               variables |-> variables, cached |-> ~no_cache, pre |-> EmptyMap,
               todo |-> {}, cur |-> <<>>, changes |-> <<>>, log |-> <<>>,
               written |-> <<>>, failed |-> FALSE, restores |-> 0,
               result |-> "none", exit |-> -1, mains |-> run.mains + 1]
    /\ sessions' = EmptyMap
    /\ cache' = EmptyMap
    /\ createRuns' = EmptyMap
    /\ assumeRuns' = EmptyMap
    /\ hist' = EmptyMap
    /\ rollback' = NoRollback
    /\ pv' = [pv EXCEPT !.status = "idle"]
    /\ UNCHANGED <<threads, nextId, calls, last, fs, os, clock, note>>

\* process_files: backup_existing_manifests(directory), first of all.  An
\* error leaves process_files and is reported by main, which returns 1.
ProcessFilesBackup(order) ==
    \E r \in {backup_existing_manifests(fs, os, clock, order)} :
        /\ run.pc = "process"
        /\ fs' = r.fs
        /\ rollback' = r.rollback
        /\ run' = IF r.tag = "raise"
                  THEN [run EXCEPT !.pc = "done", !.exit = 1, !.pre = fs,
                                   !.log = Log("backup raised")]
                  ELSE [run EXCEPT !.pc = "walk", !.pre = fs,
                                   !.todo = TemplatePaths(r.fs),
                                   !.log = Log("backup")]
        /\ UNCHANGED <<rvars, os, clock, note>>

\* process_files: the next template of the walk is read, and
\* process_variables is entered on its content.
ProcessTemplate(t) ==
    \E r \in {ReadFile(fs, os, t)} :
        /\ run.pc = "walk"
        /\ t \in run.todo
        /\ IF r.ok
           THEN /\ run' = [run EXCEPT !.pc = "subst", !.cur = t]
                /\ pv' = [status |-> "running", content |-> r.content,
                          variables |-> run.variables, pos |-> 1, out |-> <<>>,
                          seen |-> <<>>, cached |-> run.cached,
                          runs |-> pv.runs]
           ELSE /\ run' = [run EXCEPT !.pc = "done", !.exit = 1,
                                      !.log = Log("read raised")]
                /\ pv' = pv
        /\ UNCHANGED <<threads, sessions, nextId, cache, createRuns, assumeRuns, hist,
                       calls, last, fs, os, clock, rollback, note>>

\* process_files: process_variables returned, the FileChange is appended.
ProcessCollect ==
    /\ run.pc = "subst"
    /\ pv.status = "returned"
    /\ run' = [run EXCEPT !.pc = "walk", !.cur = <<>>,
                   !.todo = run.todo \ {run.cur},
                   !.changes = Append(run.changes,
                                      FileChange(run.cur, pv.content, pv.out))]
    /\ pv' = [pv EXCEPT !.status = "idle"]
    /\ UNCHANGED <<threads, sessions, nextId, cache, createRuns, assumeRuns, hist,
                   calls, last, fs, os, clock, rollback, note>>

\* process_files: process_variables raised; main reports it and returns 1.
ProcessRaise ==
    /\ run.pc = "subst"
    /\ pv.status = "raised"
    /\ run' = [run EXCEPT !.pc = "done", !.exit = 1,
                   !.log = Log("substitution raised")]
    /\ pv' = [pv EXCEPT !.status = "idle"]
    /\ UNCHANGED <<threads, sessions, nextId, cache, createRuns, assumeRuns, hist,
                   calls, last, fs, os, clock, rollback, note>>

\* main: `if not changes: return 0`
NoChanges ==
    /\ run.pc = "walk"
    /\ run.todo = {}
    /\ run.changes = <<>>
    /\ run' = [run EXCEPT !.pc = "done", !.exit = 0]
    /\ UNCHANGED <<rvars, fs, os, clock, rollback, note>>

\* main without --apply: the diff is shown, then remove_generated_files is
\* called, which the wrapper of core/wrapper.py does not have.
DiffOnly ==
    /\ run.pc = "walk"
    /\ run.todo = {}
    /\ run.changes # <<>>
    /\ ~run.apply
    /\ IF run.kind = "kustforge"
       THEN /\ fs' = remove_generated_files(fs, run.changes)
            /\ run' = [run EXCEPT !.pc = "done", !.exit = 0,
                           !.log = Log("diff") \o <<"remove">>]
       ELSE /\ fs' = fs
            /\ run' = [run EXCEPT !.pc = "done", !.exit = 1,
                           !.log = Log("diff")]
    /\ UNCHANGED <<rvars, os, clock, rollback, note>>

\* main with --apply: the diff is shown if asked for, apply_changes(changes)
\* is called, and after it kustomize build, which succeeds or not.
ApplyChanges(build_ok) ==
    \E r \in {apply_changes(fs, os, rollback, run.changes, FALSE, "ok")} :
        /\ run.pc = "walk"
        /\ run.todo = {}
        /\ run.changes # <<>>
        /\ run.apply
        /\ r.value = FALSE => build_ok
        /\ fs' = r.fs
        /\ run' = [run EXCEPT !.pc = "done",
                       !.exit = IF r.tag = "return" /\ r.value /\ build_ok
                                THEN 0 ELSE 1,
                       !.written = r.written, !.failed = r.failed,
                       !.restores = r.restores,
                       !.result = IF r.tag = "raise" THEN "raise"
                                  ELSE IF r.value THEN "True" ELSE "False",
                       !.log = (IF run.diff THEN Log("diff") ELSE run.log)
                               \o <<"apply">>
                               \o (IF r.value THEN <<"build">> ELSE <<>>)]
        /\ UNCHANGED <<rvars, os, clock, rollback, note>>

\* main with --apply, interrupted by the user inside apply_changes:
\* `except KeyboardInterrupt` of main returns 1.
ApplyInterrupted(k, opened) ==
    /\ run.pc = "walk"
    /\ run.todo = {}
    /\ run.apply
    /\ k < Len(run.changes)
    /\ \E r \in {apply_changes_interrupted(fs, os, rollback, run.changes, k,
                                           opened)} :
        /\ r.ok
        /\ fs' = r.fs
        /\ run' = [run EXCEPT !.pc = "done", !.exit = 1,
                       !.written = r.written, !.restores = r.restores,
                       !.result = "interrupted",
                       !.log = (IF run.diff THEN Log("diff") ELSE run.log)
                               \o <<"apply">>]
    /\ UNCHANGED <<rvars, os, clock, rollback, note>>

\* wrapper.apply_changes(changes, dry_run=True) on the changes of
\* process_files; cluster is what kubectl reports for the manifests.
ApplyDryRun(cluster) ==
    \E r \in {apply_changes(fs, os, rollback, run.changes, TRUE, cluster)} :
        /\ run.pc = "walk"
        /\ run.todo = {}
        /\ run.changes # <<>>
        /\ fs' = r.fs
        /\ run' = [run EXCEPT !.pc = "validated",
                       !.written = r.written, !.failed = r.failed,
                       !.restores = r.restores,
                       !.result = IF r.tag = "raise" THEN "raise"
                                  ELSE IF r.value THEN "True" ELSE "False",
                       !.log = Log("dry run") \o <<cluster>>]
        /\ UNCHANGED <<rvars, os, clock, rollback, note>>

InitTree ==
    InitResolver /\ \E tree \in Trees, linesep \in {LF, CRLF} : InitFiles(tree, linesep)

\* The rollback manager on a file system that does not fail.
NextRoundTrip ==
    \/ \E order \in WalkOrders(BackupCandidates(fs)) : Backup(order)
    \/ Restore
    \/ \E p \in FaultPaths, content \in MutatedContents : Mutate(p, content)
    \/ Tick

SpecRoundTrip == InitTree /\ [][NextRoundTrip]_vars

\* The rollback manager on a file system that fails on the manifests it
\* backs up.
NextRollback ==
    \/ \E order \in WalkOrders(BackupCandidates(fs)) : Backup(order)
    \/ Restore
    \/ \E p \in FaultPaths, content \in MutatedContents : Mutate(p, content)
    \/ Tick
    \/ \E p \in FaultPaths \cap BackupCandidates(fs), kind \in FaultKinds \cup {"ok"} :
            SetFault(p, kind)

\* The faults are studied where os.linesep is '\n'.
InitPosix == InitResolver /\ \E tree \in Trees : InitFiles(tree, LF)

SpecRollback == InitPosix /\ [][NextRollback]_vars

\* Runs of main, on a file system that fails.
NextApply ==
    \/ \E apply \in BOOLEAN, diff \in BOOLEAN, kind \in {"core", "kustforge"},
          variables \in MainVariableMaps, no_cache \in BOOLEAN :
            MainStart(apply, diff, kind, variables, no_cache)
    \/ \E order \in WalkOrders(BackupCandidates(fs)) : ProcessFilesBackup(order)
    \/ \E t \in TemplatePaths(fs) : ProcessTemplate(t)
    \/ PVReturn
    \/ PVPlain
    \/ PVParseError
    \/ PVLookup
    \/ ProcessCollect
    \/ ProcessRaise
    \/ NoChanges
    \/ DiffOnly
    \/ \E build_ok \in BOOLEAN : ApplyChanges(build_ok)
    \/ \E k \in 0..Len(run.changes), opened \in BOOLEAN :
            ApplyInterrupted(k, opened)
    \/ \E p \in FaultPaths, kind \in FaultKinds \cup {"ok"} : SetFault(p, kind)

SpecApply == InitTree /\ [][NextApply]_vars

\* process_files, then apply_changes(changes, dry_run=True), on a file system
\* that fails.
InitDryRun ==
    InitResolver /\ \E tree \in Trees \cup {TreeCfg}, linesep \in {LF, CRLF} :
                        InitFiles(tree, linesep)

NextDryRun ==
    \/ \E kind \in {"core", "kustforge"}, variables \in MainVariableMaps,
          no_cache \in BOOLEAN :
            MainStart(TRUE, FALSE, kind, variables, no_cache)
    \/ \E order \in WalkOrders(BackupCandidates(fs)) : ProcessFilesBackup(order)
    \/ \E t \in TemplatePaths(fs) : ProcessTemplate(t)
    \/ PVReturn
    \/ PVPlain
    \/ PVParseError
    \/ PVLookup
    \/ ProcessCollect
    \/ ProcessRaise
    \/ \E cluster \in {"ok", "warning"} : ApplyDryRun(cluster)
    \/ \E p \in FaultPaths, kind \in FaultKinds \cup {"ok"} : SetFault(p, kind)

SpecDryRun == InitDryRun /\ [][NextDryRun]_vars

----------------------------------------------------------------------------
(* Properties of the caching layer and of the session manager *)

IsLookup(c) == c.op \in {"resolve", "base_resolve"}

\* C1: once a lookup through the caching layer has returned a non-None value
\* X, every later lookup with identical arguments returns X without invoking
\* the base resolver, and so without requesting a session or calling a
\* handler, whatever the remote side would answer now.
C1_HitReturnsStored ==
    (last.op = "resolve" /\ last.seen) =>
        /\ last.tag = "return"
        /\ last.value = last.seenValue
        /\ last.baseCalls = 0
        /\ last.sessionReqs = 0
        /\ last.creates = 0
        /\ last.handlerCalls = 0

\* A repeated lookup answered X although the handler would now answer Y.
C1_Witness ==
    /\ last.op = "resolve"
    /\ last.seen
    /\ last.value = S_X
    /\ last.env.handler = HandlerReturn(S_Y)

\* C2: a lookup through the caching layer that returns None leaves the cache
\* unchanged, and the next lookup with the same arguments invokes the base
\* resolver again and returns what the base resolver returns then.
C2_NoneIsRetried ==
    [][/\ (last'.op = "resolve" /\ last'.tag = "return" /\ last'.value = None)
            => cache' = cache
       /\ (last'.op = "resolve" /\ last'.afterNone) =>
            /\ last'.baseCalls = 1
            /\ last'.tag = resolve_aws_resource(sessions, nextId, last'.rt,
                    last'.q, last'.a, last'.r, last'.env).tag
            /\ last'.value = resolve_aws_resource(sessions, nextId, last'.rt,
                    last'.q, last'.a, last'.r, last'.env).value]_vars

\* After a lookup that returned None, the same lookup reached the handler
\* and returned its value.
C2_Witness ==
    /\ last.op = "resolve"
    /\ last.afterNone
    /\ last.handlerCalls = 1
    /\ last.value = S_X
    /\ cache # EmptyMap

\* C3: process_variables never raises for an individual 'aws:' reference.
C3_NeverRaises == pv.status # "raised"

\* C4, as stated: _create_session runs at most once per session key.
C4_AtMostOneFlow == \A k \in DOMAIN createRuns : createRuns[k] <= 1

\* C4, as the code has it: a session stored for a key is never replaced or
\* dropped; get_session for a key that has a stored session returns that
\* session without running _create_session or an assumption exchange;
\* _create_session runs only for a key without a stored session, and the
\* session it returns is stored under the key. (A flow that fails stores
\* nothing, and the next call with the key runs it again.)
C4_AtMostOneSuccessfulFlow ==
    [][/\ \A k \in DOMAIN sessions :
            k \in DOMAIN sessions' /\ sessions'[k] = sessions[k]
       /\ (last'.op = "get_session" /\ last'.skey \in DOMAIN sessions) =>
            /\ last'.tag = "return"
            /\ last'.session = sessions[last'.skey]
            /\ last'.creates = 0
            /\ last'.assumes = 0
       /\ (last'.op = "get_session" /\ last'.creates > 0) =>
            /\ last'.skey \notin DOMAIN sessions
            /\ last'.tag = "return" =>
                    /\ last'.skey \in DOMAIN sessions'
                    /\ sessions'[last'.skey] = last'.session]_vars

\* A repeated get_session for a role that is assumed returned the stored
\* session; the exchange for its key has run once.
C4_Witness ==
    /\ last.op = "get_session"
    /\ last.hit
    /\ last.session.kind = "assumed"
    /\ Count(assumeRuns, last.skey) = 1
    /\ Count(createRuns, last.skey) = 1

\* C10: a lookup of a resource type that is not in the registry raises
\* before any session is requested and before any handler is called; through
\* the caching layer the error propagates and the cache is unchanged.
C10_UnregisteredTypeRaises ==
    [][(IsLookup(last') /\ calls' = calls + 1
            /\ last'.rt \notin resource_handlers) =>
            /\ last'.tag = "raise"
            /\ last'.sessionReqs = 0
            /\ last'.creates = 0
            /\ last'.handlerCalls = 0
            /\ sessions' = sessions
            /\ cache' = cache]_vars

\* A lookup of an unregistered type through the caching layer raised, with
\* an entry in the cache.
C10_Witness ==
    /\ last.op = "resolve"
    /\ last.rt = S_unknown
    /\ last.tag = "raise"
    /\ cache # EmptyMap

----------------------------------------------------------------------------
(* Properties of the backup, of apply_changes and of the rollback *)

OutputPaths(changes) == [i \in DOMAIN changes |-> changes[i].output_path]

\* C5: in apply_changes with dry_run false, a failure while writing an
\* output file is followed by exactly one call of restore_manifests, no
\* further change of the batch is written (the write that failed is the last
\* one attempted, and the writes were attempted in the order of the batch),
\* and apply_changes returns False, so that main returns 1.
C5_WriteFailureRollsBack ==
    (run.pc = "done" /\ run.failed) =>
        /\ run.restores = 1
        /\ run.result = "False"
        /\ run.exit = 1
        /\ Len(run.written) <= Len(run.changes)
        /\ \A i \in DOMAIN run.written :
                /\ run.written[i].path = OutputPaths(run.changes)[i]
                /\ run.written[i].ok <=> i < Len(run.written)

\* A run whose first write failed, with another change left unwritten.
C5_Witness ==
    /\ run.pc = "done"
    /\ run.failed
    /\ run.restores = 1
    /\ Len(run.written) < Len(run.changes)

\* The manifest files under the directory, outside its backup subdirectory.
ManifestsOutsideBackup(f) ==
    {p \in DOMAIN f : p[1] # S_marker /\ IsBackedUpName(basename(p))}

\* C6: before the first output file is written, backup_existing_manifests
\* has completed and holds every manifest file that was under the directory,
\* outside the backup subdirectory, both in memory and on disk; and if the
\* backup fails partway, no output file is written.
C6_BackupBeforeWrites ==
    /\ run.written # <<>> =>
            /\ run.log # <<>> /\ run.log[1] = "backup"
            /\ \A p \in ManifestsOutsideBackup(run.pre) :
                    /\ p \in BackupPaths(rollback.current_backup)
                    /\ (rollback.backup_dir \o p) \in DOMAIN fs
    /\ (run.log # <<>> /\ run.log[1] = "backup raised") => run.written = <<>>

\* C7: after backup_existing_manifests, any change of the content of a
\* tracked manifest, and restore_manifests, the content of every tracked
\* manifest is its content at the time of the backup, and its copy in the
\* backup directory is present with that content.
C7_RoundTrip ==
    note.op = "restore" =>
        \A p \in DOMAIN note.atBackup :
            /\ p \in DOMAIN fs /\ fs[p] = note.atBackup[p]
            /\ (rollback.backup_dir \o p) \in DOMAIN fs
            /\ fs[rollback.backup_dir \o p] = note.atBackup[p]

\* C8: restore_manifests attempts every path of the in-memory snapshot, the
\* ones after a failed write too; it never raises; it leaves every file of
\* the backup directory, and the rollback manager, as they were; and called
\* twice in a row it leaves the files as the first call left them.
C8_RestoreBestEffort ==
    [][note'.op = "restore" =>
        /\ note'.tag = "return"
        /\ note'.attempted = BackupPaths(rollback.current_backup)
        /\ \A p \in DOMAIN fs :
                p[1] = S_marker => (p \in DOMAIN fs' /\ fs'[p] = fs[p])
        /\ rollback' = rollback
        /\ note.op = "restore" => fs' = fs]_vars

\* Two calls in a row, in which the write of one path failed and the write
\* of another succeeded.
C8_Witness ==
    /\ note.op = "restore"
    /\ note.twice
    /\ note.failed # {}
    /\ note.attempted \ note.failed # {}

\* The processed content fails structural validation.
FailsValidation(content) ==
    \/ validate_manifest(content).tag = "raise"
    \/ validate_manifest(content).errors # {}

\* C9: in apply mode, if the processed content of a change of the batch fails
\* structural validation, no output file is written and main returns 1; in
\* diff-only mode the diff is shown all the same.
C9_ValidationGate ==
    /\ (/\ run.pc = "done"
        /\ run.apply
        /\ \E i \in DOMAIN run.changes :
                FailsValidation(run.changes[i].processed_content))
            => (run.written = <<>> /\ run.exit = 1)
    /\ (/\ run.pc = "done"
        /\ ~run.apply
        /\ run.changes # <<>>
        /\ run.todo = {}
        /\ run.cur = <<>>)
            => \E i \in DOMAIN run.log : run.log[i] = "diff"

----------------------------------------------------------------------------
(* Properties of the handler registry *)

\* C11: a lookup of a registered resource type never raises.  When the
\* session cannot be acquired (a configuration error, a failed or broken
\* exchange) the handler is not called and the result is None; when the
\* handler raises (a ClientError or any other exception) the result is None;
\* inside process_variables the substitution then goes on behind the
\* placeholder, so that a later reference is still attempted.
C11_SupportedNeverRaises ==
    [][(IsLookup(last') /\ calls' = calls + 1
            /\ last'.rt \in resource_handlers) =>
            /\ last'.tag = "return"
            /\ (/\ last'.baseCalls = 1
                /\ get_session(sessions, nextId, last'.a, last'.r,
                               last'.env.sts).tag = "raise") =>
                    /\ last'.value = None
                    /\ last'.handlerCalls = 0
            /\ (last'.handlerCalls = 1 /\ last'.env.handler.kind = "raise") =>
                    last'.value = None
            /\ last'.origin = "process_variables" =>
                    /\ pv'.status = "running"
                    /\ pv'.pos > pv.pos]_vars

\* Inside process_variables, the exchange for the first reference failed and
\* the lookup returned None: the placeholder is left and the next reference
\* of the template is what the substitution looks at.
C11_Witness ==
    /\ IsLookup(last)
    /\ last.origin = "process_variables"
    /\ last.rt = S_ecr
    /\ last.assumes = 1
    /\ last.env.sts = "ClientError"
    /\ last.handlerCalls = 0
    /\ last.value = None
    /\ pv.status = "running"
    /\ pv.content = T_batch
    /\ NextMatch(pv.content, pv.pos).ok
    /\ NextMatch(pv.content, pv.pos).group = I_rds

\* C12: a lookup whose query lacks a parameter that the handler of its
\* type requires is rejected before any remote call: no session is
\* requested and handler.resolve is not called.
C12_RequiredParamsChecked ==
    [][(/\ IsLookup(last') /\ calls' = calls + 1
        /\ last'.rt \in resource_handlers
        /\ \E i \in DOMAIN required_params(last'.rt) :
                ~HasKey(last'.q, required_params(last'.rt)[i])) =>
            /\ last'.sessionReqs = 0
            /\ last'.handlerCalls = 0]_vars

\* C13: validate_resource_reference returns, and never raises; its value is
\* True exactly when the identifier parses, the type is registered and every
\* required parameter of the handler is a key of the query; it requests no
\* session, calls no handler and leaves the session cache and the result
\* cache as they are.
C13_ValidateIsSessionless ==
    [][(last'.op = "validate" /\ calls' = calls + 1) =>
            /\ last'.tag = "return"
            /\ \A p \in {parse_resource_identifier(last'.ident)} :
                    last'.valid <=>
                        /\ p.tag = "return"
                        /\ p.resource_type \in resource_handlers
                        /\ \A i \in DOMAIN required_params(p.resource_type) :
                            HasKey(p.query, required_params(p.resource_type)[i])
            /\ last'.sessionReqs = 0
            /\ last'.creates = 0
            /\ last'.assumes = 0
            /\ last'.handlerCalls = 0
            /\ sessions' = sessions
            /\ nextId' = nextId
            /\ createRuns' = createRuns
            /\ assumeRuns' = assumeRuns
            /\ cache' = cache]_vars

\* With a session and a result stored, the validation of an 'ecr' reference
\* without 'name' returned False.
C13_Witness ==
    /\ last.op = "validate"
    /\ last.ident = I_ecr_ab
    /\ ~last.valid
    /\ sessions # EmptyMap
    /\ cache # EmptyMap

\* The resource kinds that the specification names.
SpecKinds == {S_rds, S_elasticache, S_alb, S_ecr, S_secret, S_acm, S_waf}

\* C14: a lookup of any of the seven kinds is dispatched to a handler: it
\* does not end with the error of an unsupported type.
C14_SevenKindsRegistered ==
    (IsLookup(last) /\ last.rt \in SpecKinds) => last.tag # "raise"

----------------------------------------------------------------------------
(* Properties of session creation *)

IsGetSession(c) == c.op = "get_session"

\* C15: when get_session creates a session, it takes the first branch that
\* applies: with no role, a default-region session and no exchange, whatever
\* the account; else with a role that is a key of the profile mappings, a
\* session of that profile and no exchange; only otherwise a role ARN is
\* resolved, and the session, if there is one, comes from one exchange.
C15_BranchOrder ==
    [][(IsGetSession(last') /\ calls' = calls + 1 /\ last'.creates = 1) =>
            IF ~Truthy(last'.r)
            THEN /\ last'.tag = "return"
                 /\ last'.session.kind = "default"
                 /\ last'.assumes = 0
            ELSE IF last'.r \in DOMAIN profile_mappings
            THEN /\ last'.tag = "return"
                 /\ last'.session.kind = "profile"
                 /\ last'.session.arg = profile_mappings[last'.r]
                 /\ last'.assumes = 0
            ELSE /\ last'.tag = "return" =>
                        (last'.session.kind = "assumed" /\ last'.assumes = 1)
                 /\ last'.assumes = 0 =>
                        (last'.tag = "raise" /\ last'.arn = <<>>)]_vars

\* A role that is a profile alias, with an account from which an ARN could
\* be built: the session is the profile's, without an exchange.
C15_Witness ==
    /\ IsGetSession(last)
    /\ last.a = S_prod
    /\ last.r = S_dev
    /\ last.creates = 1
    /\ last.assumes = 0
    /\ last.session.kind = "profile"
    /\ last.session.arg = S_devprofile

\* C16: the role ARN of the exchange is the role name itself when that is a
\* literal ARN; else the ARN configured for the alias; else the ARN built
\* from the resolved account id and the role name; with no alias and no
\* account id the call raises, without an exchange and without a session
\* stored.
C16_RoleArnResolution ==
    [][(/\ IsGetSession(last') /\ calls' = calls + 1 /\ last'.creates = 1
        /\ Truthy(last'.r) /\ last'.r \notin DOMAIN profile_mappings) =>
            LET r == last'.r
                acct == IF Truthy(last'.a) THEN resolve_account_id(last'.a)
                        ELSE last'.a
            IN IF StartsWith(r, S_arn)
               THEN last'.assumes = 1 /\ last'.arn = r
               ELSE IF r \in DOMAIN role_mappings
               THEN last'.assumes = 1 /\ last'.arn = role_mappings[r]
               ELSE IF Truthy(acct)
               THEN /\ last'.assumes = 1
                    /\ last'.arn = S_arn \o acct \o S_role \o r
               ELSE /\ last'.tag = "raise"
                    /\ last'.assumes = 0
                    /\ sessions' = sessions
                    /\ last'.skey \notin DOMAIN sessions']_vars

\* A role alias asked for with an account: the exchange was for the ARN of
\* the alias, not for one built from the account.
C16_Witness ==
    /\ IsGetSession(last)
    /\ last.a = S_prod
    /\ last.r = S_ops
    /\ last.assumes = 1
    /\ last.tag = "return"
    /\ last.arn = S_ops_arn
    /\ last.session.arg = S_ops_arn

\* C17: when the exchange of a get_session call fails, the call raises, the
\* exchange has been attempted once, and the session cache is as it was: no
\* session is stored for the key.
C17_FailedExchangeRaises ==
    [][(/\ IsGetSession(last') /\ calls' = calls + 1
        /\ last'.assumes > 0 /\ last'.env.sts # "ok") =>
            /\ last'.tag = "raise"
            /\ last'.assumes = 1
            /\ Count(assumeRuns', last'.skey) = Count(assumeRuns, last'.skey) + 1
            /\ sessions' = sessions
            /\ last'.skey \notin DOMAIN sessions']_vars

\* The exchange failed with a ClientError while another session was stored.
C17_Witness ==
    /\ IsGetSession(last)
    /\ last.env.sts = "ClientError"
    /\ last.assumes = 1
    /\ last.tag = "raise"
    /\ sessions # EmptyMap
    /\ last.skey \notin DOMAIN sessions

\* C18: the account of the session key is the identifier itself when it is
\* numeric, the mapped id when it is an alias, and the identifier itself
\* when it is neither; so get_session with an alias and get_session with
\* its id have one key, and the second of them returns the session stored
\* by the first without a second credential flow.
C18_AccountAliasShared ==
    [][(IsGetSession(last') /\ calls' = calls + 1) =>
            LET a == last'.a
                r == last'.r
                expected ==
                    IF ~Truthy(a) \/ IsDigit(a) THEN a
                    ELSE IF a \in DOMAIN account_mappings
                    THEN account_mappings[a]
                    ELSE a
            IN /\ Truthy(a) => resolve_account_id(a) = expected
               /\ last'.skey = Or(expected, S_default) \o <<":">>
                                    \o Or(r, S_default)
               /\ \A alias \in DOMAIN account_mappings :
                    (/\ a \in {alias, account_mappings[alias]}
                     /\ session_key(account_mappings[alias], r)
                            \in DOMAIN sessions) =>
                        /\ last'.hit
                        /\ last'.creates = 0
                        /\ last'.assumes = 0
                        /\ last'.session =
                            sessions[session_key(account_mappings[alias], r)]]_vars

\* get_session('prod', 'deploy') and then get_session('111', 'deploy'): the
\* second returned the stored session, after one flow for the key.
C18_Witness ==
    /\ IsGetSession(last)
    /\ last.a = S_111
    /\ last.r = S_deploy
    /\ last.prev = <<S_prod, S_deploy>>
    /\ last.hit
    /\ last.session.kind = "assumed"
    /\ Count(createRuns, last.skey) = 1
    /\ Count(assumeRuns, last.skey) = 1

----------------------------------------------------------------------------
(* Properties of process_variables *)

\* C19: a placeholder whose inner text does not start with 'aws:' is
\* replaced by the string form of the value that the variables mapping has
\* under exactly that inner text, and is left as it stands when the mapping
\* has no such key; no call is made on the resolver for it.
C19_PlainVariable ==
    [][(pv.status = "running" /\ pv' # pv) =>
          \A m \in {NextMatch(pv.content, pv.pos)} :
            (m.ok /\ ~StartsWith(m.group, S_aws)) =>
                LET before == SubSeq(pv.content, pv.pos, m.start - 1)
                    placeholder == SubSeq(pv.content, m.start, m.stop)
                IN /\ pv'.status = "running"
                   /\ pv'.out = pv.out \o before \o
                        (IF m.group \in DOMAIN pv.variables
                         THEN IF pv.variables[m.group] = None
                              THEN <<"N", "o", "n", "e">>
                              ELSE pv.variables[m.group]
                         ELSE placeholder)
                   /\ calls' = calls
                   /\ last' = last
                   /\ sessions' = sessions
                   /\ cache' = cache]_vars

\* '{{ v }}' was replaced by the value of 'v', without a call.
C19_Witness ==
    /\ pv.status = "running"
    /\ pv.content = T_mix
    /\ pv.variables = (S_v :> S_val)
    /\ pv.seen = <<1>>
    /\ pv.out = S_val
    /\ calls = 0

\* The starts of the placeholders of s from index pos on, left to right.
RECURSIVE MatchStarts(_, _)
MatchStarts(s, pos) ==
    LET Rest(m) == IF m.ok THEN <<m.start>> \o MatchStarts(s, m.stop + 1)
                   ELSE <<>>
    IN Rest(NextMatch(s, pos))

\* C20: the substitution is one pass over the input: the input is never
\* changed, each step takes the leftmost placeholder behind the previous
\* one, writes the text before it and its replacement to the result as they
\* are, and goes on behind the placeholder in the input; at the end the
\* placeholders visited are those of the input, once each and in order.
C20_SinglePass ==
    [][(pv.status = "running" /\ pv' # pv) =>
          \A m \in {NextMatch(pv.content, pv.pos)} :
            LET before == SubSeq(pv.content, pv.pos, m.start - 1)
            IN /\ pv'.content = pv.content
               /\ pv'.variables = pv.variables
               /\ (m.ok /\ pv'.status = "running") =>
                    /\ m.start >= pv.pos
                    /\ pv'.pos = m.stop + 1
                    /\ pv'.seen = Append(pv.seen, m.start)
                    /\ StartsWith(pv'.out, pv.out \o before)
               /\ ~m.ok =>
                    /\ pv'.status = "returned"
                    /\ pv'.out = pv.out
                            \o SubSeq(pv.content, pv.pos, Len(pv.content))
                    /\ pv'.seen = MatchStarts(pv.content, 1)]_vars

\* The value of 'v' is itself a placeholder: it is in the result as it is,
\* and the one later placeholder of the input has been visited after it.
C20_Witness ==
    /\ pv.status = "returned"
    /\ pv.content = T_mix
    /\ pv.variables = (S_v :> S_braced)
    /\ StartsWith(pv.out, S_braced \o <<"/">>)
    /\ pv.seen = <<1, 9>>

----------------------------------------------------------------------------
(* Properties of the ${aws:...} processor and of validate_manifest *)

\* The start indexes of the ${aws:...} references of a text.
RefStarts(s) == {i \in 1..Len(s) : RefMatchAt(s, i).ok}

\* C21: a ${aws:...} reference is replaced as a {{ aws:... }} reference is:
\* for a text with one reference whose identifier parses, process_template
\* ends as the lookup of the parsed (resource_type, query, account, role)
\* ends for some answer of the remote side, and on a return the text holds,
\* in the place of the reference, the value of that lookup (or the
\* reference itself where the value is empty).
C21_DollarSyntaxEquivalent ==
    (last.op = "process_template" /\ last.configured /\ ~last.validate) =>
        \A m \in {NextRef(last.ident, 1)} :
            (m.ok /\ Cardinality(RefStarts(last.ident)) = 1) =>
                \A p \in {parse_resource_identifier(m.group)} :
                    p.tag = "return" =>
                        \E env \in Envs :
                            \E res \in {cached_resolve_aws_resource(
                                            cache, sessions, nextId,
                                            p.resource_type, p.query,
                                            p.account_id, p.role_name, env)} :
                                /\ last.tag = res.tag
                                /\ res.tag = "return" =>
                                    last.value =
                                        SubSeq(last.ident, 1, m.start - 1)
                                        \o Or(res.value,
                                              SubSeq(last.ident, m.start, m.stop))
                                        \o SubSeq(last.ident, m.stop + 1,
                                                  Len(last.ident))

\* C22: when every ${aws:...} reference of a text fails to resolve,
\* process_template (validation off) returns the text as it was, with one
\* diagnostic for each reference.
C22_FailureKeepsPlaceholder ==
    (/\ last.op = "process_template"
     /\ ~last.validate
     /\ RefStarts(last.ident) # {}
     /\ \A i \in RefStarts(last.ident) :
            process_reference(last.configured,
                              RefMatchAt(last.ident, i).group).tag = "raise")
        => /\ last.tag = "return"
           /\ last.value = last.ident
           /\ last.warnings = Cardinality(RefStarts(last.ident))

\* C23: validate_manifest returns for every content, and a content that is
\* no parseable YAML is reported in the returned list of errors.
C23_ValidateManifestNeverRaises ==
    last.op = "validate_manifest" =>
        /\ last.tag = "return"
        /\ safe_load(last.ident).kind = "error" => last.errors # {}

----------------------------------------------------------------------------
(* Properties of the runs of main *)

Logged(event) == \E i \in DOMAIN run.log : run.log[i] = event

\* C24: a run of main ends with 0 when no template is found and when the
\* diff was shown without --apply; it ends with 1 when apply_changes fails,
\* when it applied a batch with a change that fails validation, when an
\* error was raised, and when the user interrupted it.
C24_ExitCodes ==
    run.pc = "done" =>
        /\ (run.changes = <<>> /\ run.todo = {} /\ Len(run.log) = 1
                /\ Logged("backup")) => run.exit = 0
        /\ (~run.apply /\ Logged("diff")) => run.exit = 0
        /\ run.result \in {"False", "raise"} => run.exit = 1
        /\ (/\ run.apply
            /\ Logged("apply")
            /\ \E i \in DOMAIN run.changes :
                    FailsValidation(run.changes[i].processed_content))
                => run.exit = 1
        /\ (Logged("backup raised") \/ Logged("read raised")
                \/ Logged("substitution raised")) => run.exit = 1
        /\ run.result = "interrupted" => run.exit = 1

\* C25: when the user interrupts apply_changes while it writes the batch,
\* restore_manifests is not called, every output file already written holds
\* its new content, every file of the backup taken before the batch is on
\* disk with the content the manifest had before the run, and main returns 1.
C25_InterruptNoRollback ==
    (run.pc = "done" /\ run.result = "interrupted") =>
        /\ run.restores = 0
        /\ run.exit = 1
        /\ \A i \in DOMAIN run.written :
                /\ run.written[i].ok
                /\ run.written[i].path = run.changes[i].output_path
                /\ run.written[i].path \in DOMAIN fs
                /\ fs[run.written[i].path] =
                        TextWrite(run.changes[i].processed_content, os.linesep)
        /\ \A p \in BackupPaths(rollback.current_backup) :
                /\ (rollback.backup_dir \o p) \in DOMAIN fs
                /\ fs[rollback.backup_dir \o p] = run.pre[p]

\* An interrupted run that had overwritten a manifest held by the backup.
C25_Witness ==
    /\ run.pc = "done"
    /\ run.result = "interrupted"
    /\ \E i \in DOMAIN run.written :
            /\ run.written[i].path \in BackupPaths(rollback.current_backup)
            /\ fs[run.written[i].path] # run.pre[run.written[i].path]

\* C26: after a run without --apply, every file under the directory and
\* outside the backup subdirectory exists as before the run, with the
\* content it had before the run.
C26_DiffOnlyLeavesFiles ==
    (run.pc = "done" /\ ~run.apply) =>
        \A p \in {q \in DOMAIN run.pre \cup DOMAIN fs : q[1] # S_marker} :
            /\ p \in DOMAIN run.pre
            /\ p \in DOMAIN fs
            /\ fs[p] = run.pre[p]

----------------------------------------------------------------------------
(* Properties of parse_resource_identifier *)

\* C27: for every identifier of the grammar, made of a role (or none), a
\* type and pairs of distinct keys with whitespace around the keys and the
\* values, parse_resource_identifier returns that role (None when absent),
\* that type, those pairs with the whitespace trimmed, in their order, and
\* the account id None.
C27_ParseRoundTrip ==
    last.op = "parse" =>
        \A role \in GrammarRoles, type \in GrammarTypes,
           pairs \in GrammarPairs, pad \in GrammarPads :
            (/\ Len(pairs) = 2 => pairs[1][1] # pairs[2][1]
             /\ last.ident = Format(role, type, pairs, pad)) =>
                /\ last.tag = "return"
                /\ last.a = None
                /\ last.r = role
                /\ last.rt = type
                /\ last.q = pairs

\* A parsed identifier with a role, two pairs, a value holding ':' and
\* whitespace around the keys and the values.
C27_Witness ==
    /\ last.op = "parse"
    /\ last.tag = "return"
    /\ last.ident = Format(S_ops, S_rds, <<<<S_name, S_a_b>>, <<S_a, S_b>>>>,
                           <<" ">>)
    /\ last.q = <<<<S_name, S_a_b>>, <<S_a, S_b>>>>

\* C28: parse_resource_identifier raises on 'invalid:format' and on
\* 'aws:rds:name=', and on 'aws:rds:' it returns the type 'rds' with an
\* empty mapping.
C28_EmptyQueryParses ==
    last.op = "parse" =>
        /\ last.ident \in {I_invalid, I_bad} => last.tag = "raise"
        /\ last.ident = I_empty_query =>
                /\ last.tag = "return"
                /\ last.rt = S_rds
                /\ last.q = <<>>

\* The comma-separated segments of the query of an identifier that matches
\* identifier_pattern, each trimmed; the key and the value of a segment.
Segments(identifier) ==
    LET parts == Split(identifier_pattern(identifier).query, ",")
    IN [i \in DOMAIN parts |-> Strip(parts[i])]
SegKey(seg) == Strip(SubSeq(seg, 1, IndexOf(seg, "=", 1) - 1))
SegValue(seg) == Strip(SubSeq(seg, IndexOf(seg, "=", 1) + 1, Len(seg)))
BadSegment(seg) ==
    IndexOf(seg, "=", 1) = 0 \/ SegKey(seg) = <<>> \/ SegValue(seg) = <<>>

\* The policy on the segments numbered by checked: the parser raises exactly
\* when one of them is bad, and otherwise the mapping holds every key once,
\* with the value of its last occurrence.
PolicyOn(segs, checked) ==
    /\ last.tag = "raise" <=> \E i \in checked : BadSegment(segs[i])
    /\ last.tag = "return" =>
        /\ {last.q[j][1] : j \in DOMAIN last.q}
                = {SegKey(segs[i]) : i \in checked}
        /\ \A j, k \in DOMAIN last.q : last.q[j][1] = last.q[k][1] => j = k
        /\ \A i \in checked :
                (\A j \in checked : j > i => SegKey(segs[j]) # SegKey(segs[i]))
                    => \E j \in DOMAIN last.q :
                            last.q[j] = <<SegKey(segs[i]), SegValue(segs[i])>>

\* C29 (as stated): every comma-separated segment is checked: the parser
\* raises if any segment lacks '=' or has an empty key or value after
\* trimming, and otherwise the last occurrence of a key gives its value.
C29_EverySegmentChecked ==
    (last.op = "parse" /\ identifier_pattern(last.ident).ok) =>
        \A segs \in {Segments(last.ident)} : PolicyOn(segs, DOMAIN segs)

\* C29 (amended): a segment that is empty after trimming is skipped; the
\* parser raises exactly when a segment that is not empty lacks '=' or has an
\* empty key or value after trimming, and otherwise the mapping holds each
\* key once with the value of its last occurrence.
C29_ParameterPolicy ==
    (last.op = "parse" /\ identifier_pattern(last.ident).ok) =>
        \A segs \in {Segments(last.ident)} :
            PolicyOn(segs, {i \in DOMAIN segs : segs[i] # <<>>})

\* A parsed identifier in which a key occurs twice, with two values.
C29_Witness ==
    /\ last.op = "parse"
    /\ last.tag = "return"
    /\ \E i, j \in DOMAIN Segments(last.ident) :
            /\ i < j
            /\ ~BadSegment(Segments(last.ident)[i])
            /\ ~BadSegment(Segments(last.ident)[j])
            /\ SegKey(Segments(last.ident)[i]) = SegKey(Segments(last.ident)[j])
            /\ SegValue(Segments(last.ident)[i]) # SegValue(Segments(last.ident)[j])

----------------------------------------------------------------------------
(* Properties of the cache key *)

SamePairs(q1, q2) ==
    /\ Len(q1) = Len(q2)
    /\ {q1[i] : i \in DOMAIN q1} = {q2[i] : i \in DOMAIN q2}

\* C30: after a lookup through the caching layer that returned a value, a
\* lookup with the same account, role and resource type and the same query
\* pairs inserted in another order (no lookup in that order having returned
\* a value before) has another cache key, misses the cache and invokes the
\* base resolver.
C30_OrderMakesMiss ==
    [][(/\ last.op = "resolve" /\ last.tag = "return" /\ last.value # None
        /\ last'.op = "resolve" /\ calls' = calls + 1
        /\ last'.rt = last.rt /\ last'.a = last.a /\ last'.r = last.r
        /\ last'.q # last.q
        /\ SamePairs(last.q, last'.q)
        /\ <<last'.rt, last'.q, last'.a, last'.r>> \notin DOMAIN hist) =>
            /\ cache_key(last'.rt, last'.q, last'.a, last'.r)
                    # cache_key(last.rt, last.q, last.a, last.r)
            /\ last'.baseCalls = 1
            /\ last'.tag = resolve_aws_resource(sessions, nextId, last'.rt,
                    last'.q, last'.a, last'.r, last'.env).tag
            /\ last'.value = resolve_aws_resource(sessions, nextId, last'.rt,
                    last'.q, last'.a, last'.r, last'.env).value]_vars

\* The same two parameters were looked up in both orders, the second lookup
\* reached the handler, and the cache holds an entry for each order.
C30_Witness ==
    /\ last.op = "resolve"
    /\ last.baseCalls = 1
    /\ last.handlerCalls = 1
    /\ cache_key(S_rds, Q_name_a, last.a, last.r) \in DOMAIN cache
    /\ cache_key(S_rds, Q_a_name, last.a, last.r) \in DOMAIN cache

----------------------------------------------------------------------------
(* Properties of the caching layer under two threads *)

\* C31: two threads on one caching layer, with no lock.  A thread that
\* missed the cache returns the value its own call of the base resolver
\* produced, and a thread that hit it, the value it found; a thread writes
\* the cache only with its own value that is not None, under its own key,
\* replacing what another thread wrote there and changing no other entry;
\* no other step changes the cache, and the cache never holds None.
C31_RaceIsBenign ==
    [][/\ \A t \in Threads :
            /\ (threads[t].pc = "return" /\ threads'[t].pc = "done") =>
                    /\ threads'[t].tag = "return"
                    /\ threads'[t].returned = threads[t].result
            /\ (threads[t].pc = "store" /\ threads'[t].pc = "return") =>
                    /\ threads[t].result # None =>
                            cache' = Put(cache, threads[t].key,
                                         threads[t].result)
                    /\ threads[t].result = None => cache' = cache
       /\ (\A t \in Threads :
                ~(threads[t].pc = "store" /\ threads'[t].pc = "return"))
            => cache' = cache
       /\ \A k \in DOMAIN cache' : cache'[k] # None]_vars

\* Both threads missed the cache on one key and called the handler, which
\* answered X to one and Y to the other; each returned its own value, the
\* cache holds the value of thread 2, which wrote last, and the entry that
\* was in the cache for another key is as it was.
C31_Witness ==
    /\ threads[1].pc = "done" /\ threads[2].pc = "done"
    /\ threads[1].key = threads[2].key
    /\ threads[1].missed /\ threads[2].missed
    /\ threads[1].returned = S_X
    /\ threads[2].returned = S_Y
    /\ cache[threads[1].key] = S_Y
    /\ \E k \in DOMAIN cache : k # threads[1].key
    /\ Count(createRuns, threads[1].skey) = 2

----------------------------------------------------------------------------
(* Properties of the dry run and of the rollback of a batch *)

\* The files under the directory, outside the backup subdirectory.
Outside(f) == {p \in DOMAIN f : p[1] # S_marker}

\* C32: apply_changes with dry_run true writes no file and calls
\* restore_manifests never; it returns True exactly when every change has no
\* structural error and the cluster reports no warning, and False otherwise.
C32_DryRunOnlyValidates ==
    run.pc = "validated" =>
        /\ run.written = <<>>
        /\ Outside(fs) = Outside(run.pre)
        /\ \A p \in Outside(fs) : fs[p] = run.pre[p]
        /\ run.restores = 0
        /\ run.result \in {"True", "False"}
        /\ run.result = "True" <=>
                /\ Logged("ok")
                /\ \A i \in DOMAIN run.changes :
                        ~FailsValidation(run.changes[i].processed_content)

\* C34: after apply_changes fails partway through a batch and the rollback
\* runs with no per-file restore error, every output path of the batch is back
\* in its state before the batch: a file that existed has the content it had,
\* and a file that did not exist does not exist.
C34_RollbackRestoresBatch ==
    [][(/\ run.pc = "walk"
        /\ run'.pc = "done"
        /\ run'.failed
        /\ run'.restores = 1
        /\ restore_manifests(fs, os, rollback).failed = {})
       => \A i \in DOMAIN run.changes :
            \A p \in {run.changes[i].output_path} :
                IF p \in DOMAIN fs
                THEN p \in DOMAIN fs' /\ fs'[p] = fs[p]
                ELSE p \notin DOMAIN fs']_vars

(***************************************************************************)
(* Properties of the two caches under one thread                           *)
(***************************************************************************)

\* What a cache held is still there, unchanged, after the step.
Kept(c, d) == \A k \in DOMAIN c : k \in DOMAIN d /\ d[k] = c[k]

\* C33: in a single-threaded sequence of get_session and cached
\* resolve_aws_resource calls both caches only grow: an entry of the session
\* cache or of the resolution cache, once set, is never removed or replaced,
\* and the resolution cache never holds None.
C33_CachesOnlyGrow ==
    [][/\ Kept(sessions, sessions')
       /\ Kept(cache, cache')
       /\ \A k \in DOMAIN cache' : cache'[k] # None]_vars

\* Both caches hold an entry, and the last lookup was made on a key the
\* resolution cache already held.
C33_Witness ==
    /\ last.op = "resolve"
    /\ last.baseCalls = 0
    /\ DOMAIN sessions # {}
    /\ DOMAIN cache # {}

(***************************************************************************)
(* Properties of the keys of the two caches                                *)
(***************************************************************************)

\* The account get_session hands to _create_session.
ResolvedAccount(account_id) ==
    IF Truthy(account_id) THEN resolve_account_id(account_id) ELSE account_id

\* C35: the session get_session(account, role) returns was created by the
\* credential flow for that same (resolved account, role) pair: it is the
\* session _create_session builds for the pair, so that calls with different
\* pairs, one naming 'default' and the other naming nothing, share no session.
C35_SessionOfItsPair ==
    (last.op = "get_session" /\ last.tag = "return") =>
        \E c \in {create_session(ResolvedAccount(last.a), last.r,
                                 last.session.id, "ok")} :
            c.tag = "return" /\ c.session = last.session

\* C36: the resolution cache returns a stored value only for a lookup whose
\* (account_id, role_name, resource_type, query) equals the lookup that stored
\* it: a lookup answered from the cache has the arguments of a lookup that
\* returned a value before it.
C36_HitOnlyForSameLookup ==
    (last.op = "resolve" /\ last.baseCalls = 0) => last.seen

(***************************************************************************)
(* Properties of the replacement of a resolved reference                   *)
(***************************************************************************)

\* C37: for every {{ aws:... }} reference whose resolution succeeds,
\* process_variables leaves the placeholder only when the resolver returned
\* None: when the resolver returns a string, the empty string too, exactly
\* that string replaces the placeholder.
C37_ValueReplacesPlaceholder ==
    [][(/\ pv.status = "running"
        /\ IsLookup(last')
        /\ calls' = calls + 1
        /\ last'.origin = "process_variables"
        /\ last'.tag = "return")
       => \E m \in {NextMatch(pv.content, pv.pos)} :
            pv'.out = pv.out \o SubSeq(pv.content, pv.pos, m.start - 1)
                      \o (IF last'.value = None
                          THEN SubSeq(pv.content, m.start, m.stop)
                          ELSE last'.value)]_vars

====
